---- MODULE Spec2Model ----
(***************************************************************************)
(* absfs: the FileSystem wrapper that ExtendFiler builds around a Filer.   *)
(*                                                                         *)
(* A path is a sequence of one-character strings, so that Clean, Join and  *)
(* Split are computed on the characters as path/filepath computes them     *)
(* (Unix build: the separator is '/', a backslash is an ordinary byte for  *)
(* filepath but marks a virtual-absolute path for isVirtualAbs).           *)
(*                                                                         *)
(* The backend is the repository's mockFiler (a flat map from cleaned      *)
(* paths to files), with the optional native methods of                    *)
(* mockFilerWithOptionals present when the capability set says so.  File   *)
(* handles enumerate a directory as the File interface documents it.       *)
(* Every call the wrapper makes on the backend or on a handle it opened is *)
(* appended to a call log; the log of the most recent wrapper operation is *)
(* kept in the variable last.                                              *)
(***************************************************************************)
EXTENDS Integers, Sequences, FiniteSets, TLC

VARIABLES
    files,   \* mockFiler.files: cleaned path -> [isDir, content]
    nav,     \* mockFilerWithOptionals.cwd: the backend's own working directory
    caps,    \* the optional interfaces the backend implements
    cwd,     \* fs.cwd: the wrapper's tracked working directory
    held,    \* the handle the caller got from its latest OpenFile/Open/Create
    moved,   \* history: a Chdir of the wrapper has succeeded
    last,    \* the most recent wrapper operation: arguments, backend calls, result
    peer,    \* a second wrapper over the same backend: its fs.cwd, and which
             \* of the two wrappers made the most recent call
    th,      \* two threads inside methods of the one wrapper: where each is,
             \* and what it has read from fs.cwd
    heap,    \* the handles of file.go: heap[i] is the object at address i
    fcall,   \* the most recent call on a handle, and what it returned
    pure,    \* the most recent call of a function of flags.go or filemode.go
    ra       \* a generic RemoveAll in progress: the frames of fs.removeAll

vars == <<files, nav, caps, cwd, held, moved, last, peer, th, heap, fcall, pure, ra>>

\* what the operations of the one wrapper leave alone
others == <<peer, th, heap, fcall, pure, ra>>

----------------------------------------------------------------------------
(* Bounds of the model *)

MaxFiles == 2      \* entries the backend map may hold
MaxSize == 1       \* bytes a file may hold; also the largest Truncate size
BackendBatch == 1  \* names one Readdirnames call of the backend hands out
MaxFailAt == 14    \* the latest call of one operation that is made to fail

----------------------------------------------------------------------------
(* Characters and paths *)

Sep == "/"
BackSlash == "\\"
Dot == <<".">>
DotDot == <<".", ".">>
RootDir == <<Sep>>

RECURSIVE SplitAcc(_, _, _, _)
SplitAcc(s, ch, cur, acc) ==
    IF s = <<>> THEN Append(acc, cur)
    ELSE IF Head(s) = ch THEN SplitAcc(Tail(s), ch, <<>>, Append(acc, cur))
    ELSE SplitAcc(Tail(s), ch, Append(cur, Head(s)), acc)

\* strings.Split(s, ch): the pieces between separators, empty pieces included
SplitOn(s, ch) == SplitAcc(s, ch, <<>>, <<>>)

Split(s) == SplitOn(s, Sep)

RECURSIVE JoinComps(_)
JoinComps(comps) ==
    IF comps = <<>> THEN <<>>
    ELSE IF Len(comps) = 1 THEN comps[1]
    ELSE comps[1] \o <<Sep>> \o JoinComps(Tail(comps))

RECURSIVE CleanAcc(_, _, _)
CleanAcc(comps, rooted, out) ==
    IF comps = <<>> THEN out
    ELSE LET c == Head(comps)
             rest == Tail(comps)
         IN IF c = <<>> \/ c = Dot THEN CleanAcc(rest, rooted, out)
            ELSE IF c = DotDot
                 THEN IF out # <<>> /\ out[Len(out)] # DotDot
                      THEN CleanAcc(rest, rooted, SubSeq(out, 1, Len(out) - 1))
                      ELSE IF rooted THEN CleanAcc(rest, rooted, out)
                      ELSE CleanAcc(rest, rooted, Append(out, DotDot))
                 ELSE CleanAcc(rest, rooted, Append(out, c))

\* filepath.Clean: collapse separators, drop ".", resolve "..", "" becomes "."
Clean(p) ==
    IF p = <<>> THEN Dot
    ELSE LET rooted == p[1] = Sep
             body == JoinComps(CleanAcc(Split(p), rooted, <<>>))
         IN IF rooted THEN <<Sep>> \o body
            ELSE IF body = <<>> THEN Dot ELSE body

\* filepath.Join(a, b): empty elements are ignored, the result is cleaned
Join(a, b) ==
    IF a = <<>> /\ b = <<>> THEN <<>>
    ELSE IF a = <<>> THEN Clean(b)
    ELSE IF b = <<>> THEN Clean(a)
    ELSE Clean(a \o <<Sep>> \o b)

\* filepath.IsAbs on the Unix build
IsAbs(p) == p # <<>> /\ p[1] = Sep

isVirtualAbsSlashOnly(path) == IsAbs(path)

isVirtualAbs(path) ==
    \/ IsAbs(path)
    \/ (Len(path) > 0 /\ (path[1] = Sep \/ path[1] = BackSlash))

\* filepath.Base and filepath.Dir of a cleaned path
Comps(p) == SelectSeq(Split(p), LAMBDA c : c # <<>>)

Base(p) == LET cs == Comps(p) IN IF cs = <<>> THEN Clean(p) ELSE cs[Len(cs)]

Dir(p) ==
    LET cs == Comps(p)
    IN IF cs = <<>> THEN Clean(p)
       ELSE Clean((IF IsAbs(p) THEN <<Sep>> ELSE <<>>)
                  \o JoinComps(SubSeq(cs, 1, Len(cs) - 1)))

----------------------------------------------------------------------------
(* Errors, file records, calls *)

NoErr == [kind |-> "nil", op |-> "", path |-> <<>>]
PathError(op, path, kind) == [kind |-> kind, op |-> op, path |-> path]
Injected == PathError("", <<>>, "injected")
EOF == PathError("", <<>>, "EOF")

NewFile == [isDir |-> FALSE, content |-> <<>>]
NewDir == [isDir |-> TRUE, content |-> <<>>]

Put(f, k, v) == [x \in (DOMAIN f) \cup {k} |-> IF x = k THEN v ELSE f[x]]
Drop(f, k) == [x \in (DOMAIN f) \ {k} |-> f[x]]
EmptyFiles == [x \in {} |-> NewFile]

NoVal == [path |-> <<>>, isDir |-> FALSE, size |-> 0]
PathVal(p) == [path |-> p, isDir |-> FALSE, size |-> 0]
InfoVal(file) == [path |-> <<>>, isDir |-> file.isDir, size |-> Len(file.content)]

NoHandle == [id |-> 0, key |-> <<>>, names |-> <<>>, pos |-> 0]

NoFlag == {}

\* one call of the wrapper on the backend (m without a dot) or on a handle
Call(m, p, p2, flag, n, h, err) ==
    [m |-> m, p |-> p, p2 |-> p2, flag |-> flag, n |-> n, h |-> h, err |-> err]

\* the Mkdir calls of a call log
MkdirCalls(calls) == SelectSeq(calls, LAMBDA c : c.m = "Mkdir")

\* the backend state threaded through one wrapper operation
Ctx(fm, nv, failAt, dots, eager) ==
    [files |-> fm, nav |-> nv, calls |-> <<>>, nh |-> 0,
     failAt |-> failAt, dots |-> dots, eager |-> eager]

\* the call about to be made is the one the environment makes fail
Faulty(ctx) == Len(ctx.calls) + 1 = ctx.failAt

Log(ctx, call) == [ctx EXCEPT !.calls = Append(@, call)]

Res(ctx, err, val, h) == [ctx |-> ctx, err |-> err, val |-> val, h |-> h]

----------------------------------------------------------------------------
(* The backend: mockFiler *)

RECURSIVE SetToSeq(_)
SetToSeq(S) ==
    IF S = {} THEN <<>>
    ELSE LET x == CHOOSE y \in S : TRUE IN <<x>> \o SetToSeq(S \ {x})

\* the names a handle on directory k enumerates: its children in the map
ChildNames(fm, k) == SetToSeq({Base(x) : x \in {y \in DOMAIN fm : y # k /\ Dir(y) = k}})

\* the body of mockFiler.OpenFile; m and logged are what the call log records
openCore(ctx, m, name, flag, logged) ==
    LET k == Clean(name)
        created == IF "O_CREATE" \in flag /\ k \notin DOMAIN ctx.files
                   THEN Put(ctx.files, k, NewFile) ELSE ctx.files
        exists == k \in DOMAIN created
        after == IF exists /\ "O_TRUNC" \in flag
                 THEN [created EXCEPT ![k].content = <<>>] ELSE created
        err == IF Faulty(ctx) THEN Injected
               ELSE IF ~exists THEN PathError("open", k, "ErrNotExist")
               ELSE NoErr
        id == ctx.nh + 1
        h == IF err = NoErr
             THEN [id |-> id, key |-> k, pos |-> 0,
                   names |-> (IF ctx.dots /\ after[k].isDir THEN <<Dot, DotDot>> ELSE <<>>)
                             \o ChildNames(after, k)]
             ELSE NoHandle
        c1 == IF err = NoErr THEN [ctx EXCEPT !.files = after, !.nh = id]
              ELSE IF Faulty(ctx) THEN ctx
              ELSE [ctx EXCEPT !.files = created]
    IN Res(Log(c1, Call(m, name, <<>>, logged, 0, h.id, err)), err, NoVal, h)

mockOpenFile(ctx, name, flag) == openCore(ctx, "OpenFile", name, flag, flag)

mockMkdir(ctx, name) ==
    LET k == Clean(name)
        err == IF Faulty(ctx) THEN Injected
               ELSE IF k \in DOMAIN ctx.files THEN PathError("mkdir", k, "ErrExist")
               ELSE NoErr
        c1 == IF err = NoErr THEN [ctx EXCEPT !.files = Put(@, k, NewDir)] ELSE ctx
    IN Res(Log(c1, Call("Mkdir", name, <<>>, NoFlag, 0, 0, err)), err, NoVal, NoHandle)

mockRemove(ctx, name) ==
    LET k == Clean(name)
        err == IF Faulty(ctx) THEN Injected
               ELSE IF k \notin DOMAIN ctx.files THEN PathError("remove", k, "ErrNotExist")
               ELSE NoErr
        c1 == IF err = NoErr THEN [ctx EXCEPT !.files = Drop(@, k)] ELSE ctx
    IN Res(Log(c1, Call("Remove", name, <<>>, NoFlag, 0, 0, err)), err, NoVal, NoHandle)

mockRename(ctx, oldpath, newpath) ==
    LET ko == Clean(oldpath)
        kn == Clean(newpath)
        err == IF Faulty(ctx) THEN Injected
               ELSE IF ko \notin DOMAIN ctx.files THEN PathError("rename", ko, "ErrNotExist")
               ELSE NoErr
        c1 == IF err = NoErr
              THEN [ctx EXCEPT !.files = Put(Drop(@, ko), kn, ctx.files[ko])]
              ELSE ctx
    IN Res(Log(c1, Call("Rename", oldpath, newpath, NoFlag, 0, 0, err)), err, NoVal, NoHandle)

mockStat(ctx, name) ==
    LET k == Clean(name)
        err == IF Faulty(ctx) THEN Injected
               ELSE IF k \notin DOMAIN ctx.files THEN PathError("stat", k, "ErrNotExist")
               ELSE NoErr
        val == IF err = NoErr THEN InfoVal(ctx.files[k]) ELSE NoVal
    IN Res(Log(ctx, Call("Stat", name, <<>>, NoFlag, 0, 0, err)), err, val, NoHandle)

\* Chmod, Chtimes and Chown of the mock: the path must exist; the mode, the
\* time and the owner are attributes no operation of the wrapper reads
mockAttr(ctx, m, op, name) ==
    LET k == Clean(name)
        err == IF Faulty(ctx) THEN Injected
               ELSE IF k \notin DOMAIN ctx.files THEN PathError(op, k, "ErrNotExist")
               ELSE NoErr
    IN Res(Log(ctx, Call(m, name, <<>>, NoFlag, 0, 0, err)), err, NoVal, NoHandle)

mockChmod(ctx, name) == mockAttr(ctx, "Chmod", "chmod", name)
mockChtimes(ctx, name) == mockAttr(ctx, "Chtimes", "chtimes", name)
mockChown(ctx, name) == mockAttr(ctx, "Chown", "chown", name)

----------------------------------------------------------------------------
(* File handles the wrapper opens *)

\* mockFileHandle.Stat: the file the handle points at
fileStat(ctx, h) ==
    LET err == IF Faulty(ctx) THEN Injected ELSE NoErr
        val == IF err = NoErr THEN InfoVal(ctx.files[h.key]) ELSE NoVal
    IN Res(Log(ctx, Call("File.Stat", h.key, <<>>, NoFlag, 0, h.id, err)), err, val, h)

\* mockFileHandle.Close
fileClose(ctx, h) ==
    LET err == IF Faulty(ctx) THEN Injected ELSE NoErr
    IN Res(Log(ctx, Call("File.Close", h.key, <<>>, NoFlag, 0, h.id, err)), err, NoVal, h)

Min(a, b) == IF a < b THEN a ELSE b

\* File.Readdirnames(n), n > 0: at most n further names; an empty answer comes
\* with io.EOF at the end of the directory (a backend may also send io.EOF
\* together with the last names)
fileReaddirnames(ctx, h, n) ==
    LET to == Min(Len(h.names), h.pos + Min(n, BackendBatch))
        batch == IF Faulty(ctx) THEN <<>> ELSE SubSeq(h.names, h.pos + 1, to)
        err == IF Faulty(ctx) THEN Injected
               ELSE IF batch = <<>> THEN EOF
               ELSE IF ctx.eager /\ to = Len(h.names) THEN EOF
               ELSE NoErr
        h1 == IF Faulty(ctx) THEN h ELSE [h EXCEPT !.pos = to]
    IN [ctx |-> Log(ctx, Call("File.Readdirnames", h.key, <<>>, NoFlag, n, h.id, err)),
        err |-> err, names |-> batch, h |-> h1]

----------------------------------------------------------------------------
(* The backend's optional native methods: mockFilerWithOptionals *)

AllCaps == {"opener", "creator", "mkaller", "remover", "truncater",
            "dirnavigator", "separator", "listseparator", "temper"}

navChdir(ctx, dir) ==
    LET k == Clean(dir)
        err == IF Faulty(ctx) THEN Injected
               ELSE IF k \notin DOMAIN ctx.files THEN PathError("chdir", k, "ErrNotExist")
               ELSE IF ~ctx.files[k].isDir THEN PathError("chdir", k, "ErrInvalid")
               ELSE NoErr
        c1 == IF err = NoErr THEN [ctx EXCEPT !.nav = k] ELSE ctx
    IN Res(Log(c1, Call("Chdir", dir, <<>>, NoFlag, 0, 0, err)), err, NoVal, NoHandle)

navGetwd(ctx) ==
    LET err == IF Faulty(ctx) THEN Injected ELSE NoErr
        val == IF err = NoErr THEN PathVal(ctx.nav) ELSE NoVal
    IN Res(Log(ctx, Call("Getwd", <<>>, <<>>, NoFlag, 0, 0, err)), err, val, NoHandle)

nativeSeparator(ctx) ==
    Res(Log(ctx, Call("Separator", <<>>, <<>>, NoFlag, 0, 0, NoErr)),
        NoErr, PathVal(<<"/">>), NoHandle)

nativeListSeparator(ctx) ==
    Res(Log(ctx, Call("ListSeparator", <<>>, <<>>, NoFlag, 0, 0, NoErr)),
        NoErr, PathVal(<<":">>), NoHandle)

nativeTempDir(ctx) ==
    Res(Log(ctx, Call("TempDir", <<>>, <<>>, NoFlag, 0, 0, NoErr)),
        NoErr, PathVal(Clean(<<"/", "t", "m", "p">>)), NoHandle)

nativeOpen(ctx, name) == openCore(ctx, "Open", name, {"O_RDONLY"}, NoFlag)

nativeCreate(ctx, name) ==
    openCore(ctx, "Create", name, {"O_CREATE", "O_RDWR", "O_TRUNC"}, NoFlag)

\* the loop "for name != root && name != ." of the mock's MkdirAll: name and
\* its ancestors, outermost first
RECURSIVE Ancestry(_)
Ancestry(name) ==
    IF name = RootDir \/ name = Dot THEN <<>>
    ELSE Append(Ancestry(Dir(name)), name)

RECURSIVE MkParts(_, _)
MkParts(fm, parts) ==
    IF parts = <<>> THEN fm
    ELSE MkParts(IF Head(parts) \in DOMAIN fm THEN fm ELSE Put(fm, Head(parts), NewDir),
                 Tail(parts))

nativeMkdirAll(ctx, name) ==
    LET err == IF Faulty(ctx) THEN Injected ELSE NoErr
        c1 == IF err = NoErr
              THEN [ctx EXCEPT !.files = MkParts(@, Ancestry(Clean(name)))]
              ELSE ctx
    IN Res(Log(c1, Call("MkdirAll", name, <<>>, NoFlag, 0, 0, err)), err, NoVal, NoHandle)

nativeRemoveAll(ctx, path) ==
    LET k == Clean(path)
        err == IF Faulty(ctx) THEN Injected
               ELSE IF k \notin DOMAIN ctx.files THEN PathError("remove", k, "ErrNotExist")
               ELSE NoErr
        c1 == IF err = NoErr THEN [ctx EXCEPT !.files = Drop(@, k)] ELSE ctx
    IN Res(Log(c1, Call("RemoveAll", path, <<>>, NoFlag, 0, 0, err)), err, NoVal, NoHandle)

\* size bytes of content: cut, or padded with zero bytes
Resize(content, size) ==
    IF size > Len(content)
    THEN content \o [i \in 1..(size - Len(content)) |-> 0]
    ELSE SubSeq(content, 1, size)

nativeTruncate(ctx, name, size) ==
    LET k == Clean(name)
        err == IF Faulty(ctx) THEN Injected
               ELSE IF k \notin DOMAIN ctx.files THEN PathError("truncate", k, "ErrNotExist")
               ELSE NoErr
        c1 == IF err = NoErr
              THEN [ctx EXCEPT !.files[k].content = Resize(@, size)]
              ELSE ctx
    IN Res(Log(c1, Call("Truncate", name, <<>>, NoFlag, size, 0, err)), err, NoVal, NoHandle)

----------------------------------------------------------------------------
(* The wrapper: type fs, built by ExtendFiler *)

ReaddirBatch == 512

\* what a wrapper method returns, with the wrapper's working directory after it
FsRes(r, c) == [ctx |-> r.ctx, cwd |-> c, err |-> r.err, val |-> r.val, h |-> r.h]

\* a resolution that joins every name onto the working directory
ResolveAlways(c, cp, name) ==
    IF "dirnavigator" \notin cp THEN Clean(Join(c, name)) ELSE name

\* the path handed to the backend: a relative name is joined onto the working
\* directory unless the backend navigates by itself
Resolve(c, cp, name) ==
    IF ~isVirtualAbs(name) /\ "dirnavigator" \notin cp
    THEN Clean(Join(c, name))
    ELSE name

fsOpenFile(ctx, c, cp, name, flag) ==
    FsRes(mockOpenFile(ctx, Resolve(c, cp, name), flag), c)

fsMkdir(ctx, c, cp, name) == FsRes(mockMkdir(ctx, Resolve(c, cp, name)), c)

fsRemove(ctx, c, cp, name) == FsRes(mockRemove(ctx, Resolve(c, cp, name)), c)

fsRenameOldOnly(ctx, c, cp, oldpath, newpath) ==
    FsRes(mockRename(ctx, Resolve(c, cp, oldpath), newpath), c)

fsRename(ctx, c, cp, oldpath, newpath) ==
    FsRes(mockRename(ctx, Resolve(c, cp, oldpath), Resolve(c, cp, newpath)), c)

fsStat(ctx, c, cp, name) == FsRes(mockStat(ctx, Resolve(c, cp, name)), c)

fsChmod(ctx, c, cp, name) == FsRes(mockChmod(ctx, Resolve(c, cp, name)), c)

fsChtimes(ctx, c, cp, name) == FsRes(mockChtimes(ctx, Resolve(c, cp, name)), c)

fsChown(ctx, c, cp, name) == FsRes(mockChown(ctx, Resolve(c, cp, name)), c)

fsSeparator(ctx, c, cp) ==
    IF "separator" \in cp THEN FsRes(nativeSeparator(ctx), c)
    ELSE FsRes(Res(ctx, NoErr, PathVal(<<Sep>>), NoHandle), c)

fsListSeparator(ctx, c, cp) ==
    IF "listseparator" \in cp THEN FsRes(nativeListSeparator(ctx), c)
    ELSE FsRes(Res(ctx, NoErr, PathVal(<<":">>), NoHandle), c)

\* os.TempDir() with TMPDIR unset
fsTempDir(ctx, c, cp) ==
    IF "temper" \in cp THEN FsRes(nativeTempDir(ctx), c)
    ELSE FsRes(Res(ctx, NoErr, PathVal(<<"/", "t", "m", "p">>), NoHandle), c)

\* Open that never asks for the backend's own Open
fsOpenViaOpenFile(ctx, c, cp, name) ==
    FsRes(mockOpenFile(ctx, Resolve(c, cp, name), {"O_RDONLY"}), c)

fsOpen(ctx, c, cp, name) ==
    IF "opener" \in cp THEN FsRes(nativeOpen(ctx, name), c)
    ELSE FsRes(mockOpenFile(ctx, Resolve(c, cp, name), {"O_RDONLY"}), c)

fsCreate(ctx, c, cp, name) ==
    IF "creator" \in cp THEN FsRes(nativeCreate(ctx, name), c)
    ELSE FsRes(mockOpenFile(ctx, Resolve(c, cp, name), {"O_CREATE", "O_RDWR", "O_TRUNC"}), c)

NotADirectory(dir) == PathError("chdir", dir, "not a directory")

\* Chdir that assigns the working directory before it looks at the entry
chdirDoneEager(s, d, c, dir) ==
    [ctx |-> d.ctx, cwd |-> Clean(dir),
     err |-> IF s.err # NoErr THEN s.err
             ELSE IF ~s.val.isDir THEN NotADirectory(dir) ELSE NoErr,
     val |-> NoVal, h |-> NoHandle]

\* Chdir from "info, err := f.Stat()" on: s is what Stat answered, d the
\* deferred f.Close(), which runs on every return
chdirDone(s, d, c, dir) ==
    IF s.err # NoErr
    THEN [ctx |-> d.ctx, cwd |-> c, err |-> s.err, val |-> NoVal, h |-> NoHandle]
    ELSE IF ~s.val.isDir
    THEN [ctx |-> d.ctx, cwd |-> c, err |-> NotADirectory(dir), val |-> NoVal, h |-> NoHandle]
    ELSE [ctx |-> d.ctx, cwd |-> Clean(dir), err |-> NoErr, val |-> NoVal, h |-> NoHandle]

chdirStatted(o, s, c, dir) == chdirDone(s, fileClose(s.ctx, o.h), c, dir)

\* Chdir after "f, err := fs.Open(dir)" answered o
chdirOpened(o, c, dir) ==
    IF o.err # NoErr
    THEN [ctx |-> o.ctx, cwd |-> c, err |-> o.err, val |-> NoVal, h |-> NoHandle]
    ELSE chdirStatted(o, fileStat(o.ctx, o.h), c, dir)

fsChdir(ctx, c, cp, dir) ==
    IF "dirnavigator" \in cp THEN FsRes(navChdir(ctx, dir), c)
    ELSE chdirOpened(fsOpen(ctx, c, cp, dir), c, dir)

fsGetwd(ctx, c, cp) ==
    IF "dirnavigator" \in cp THEN FsRes(navGetwd(ctx), c)
    ELSE FsRes(Res(ctx, NoErr, PathVal(c), NoHandle), c)

\* the loop of MkdirAll over the pieces of the cleaned name: the running
\* prefix is made with fs.Mkdir, whose error is dropped
RECURSIVE mkdirAllLoop(_, _, _, _, _)
mkdirAllLoop(ctx, c, cp, path, pieces) ==
    IF pieces = <<>> THEN ctx
    ELSE LET p == Head(pieces)
             next == Join(path, p)
         IN IF p = <<>> THEN mkdirAllLoop(ctx, c, cp, path, Tail(pieces))
            ELSE IF next = <<Sep>> THEN mkdirAllLoop(ctx, c, cp, next, Tail(pieces))
            ELSE mkdirAllLoop(fsMkdir(ctx, c, cp, next).ctx, c, cp, next, Tail(pieces))

\* the error of the first call of a log that failed
FirstError(calls) ==
    LET bad == {i \in 1..Len(calls) : calls[i].err # NoErr}
    IN IF bad = {} THEN NoErr ELSE calls[CHOOSE i \in bad : \A j \in bad : i <= j].err

\* MkdirAll that hands back the error of the first Mkdir that failed
fsMkdirAllStrict(ctx, c, cp, name) ==
    IF "mkaller" \in cp THEN FsRes(nativeMkdirAll(ctx, name), c)
    ELSE LET cleaned == Clean(Resolve(c, cp, name))
             s1 == fsSeparator(ctx, c, cp)
             s2 == fsSeparator(s1.ctx, c, cp)
             done == mkdirAllLoop(s2.ctx, c, cp, s1.val.path,
                                  SplitOn(cleaned, s2.val.path[1]))
         IN [ctx |-> done, cwd |-> c, err |-> FirstError(MkdirCalls(done.calls)),
             val |-> NoVal, h |-> NoHandle]

fsMkdirAll(ctx, c, cp, name) ==
    IF "mkaller" \in cp THEN FsRes(nativeMkdirAll(ctx, name), c)
    ELSE LET cleaned == Clean(Resolve(c, cp, name))
             s1 == fsSeparator(ctx, c, cp)
             s2 == fsSeparator(s1.ctx, c, cp)
             done == mkdirAllLoop(s2.ctx, c, cp, s1.val.path,
                                  SplitOn(cleaned, s2.val.path[1]))
         IN [ctx |-> done, cwd |-> c, err |-> NoErr, val |-> NoVal, h |-> NoHandle]

RA(ctx, err) == [ctx |-> ctx, err |-> err]

RECURSIVE removeAll(_, _, _, _)
RECURSIVE removeLoop(_, _, _, _, _)
RECURSIVE removeNames(_, _, _, _, _)

\* the loop over the names going on after a child could not be removed
removeNextLenient(r, c, cp, path, rest) == removeNames(r.ctx, c, cp, path, rest)

\* "if err := fs.removeAll(...); err != nil { return err }", then the next name
removeNext(r, c, cp, path, rest) ==
    IF r.err # NoErr THEN r ELSE removeNames(r.ctx, c, cp, path, rest)

\* the inner "for _, name := range names" of removeAll
removeNames(ctx, c, cp, path, names) ==
    IF names = <<>> THEN RA(ctx, NoErr)
    ELSE IF Head(names) = Dot \/ Head(names) = DotDot
         THEN removeNames(ctx, c, cp, path, Tail(names))
         ELSE removeNext(removeAll(ctx, c, cp, Join(path, Head(names))),
                         c, cp, path, Tail(names))

\* the end of one round: rd is what Readdirnames answered, ch what removing
\* its names came to
removeRound(rd, ch, c, cp, path) ==
    IF ch.err # NoErr THEN ch
    ELSE IF rd.err = EOF THEN RA(ch.ctx, NoErr)
    ELSE IF rd.err # NoErr THEN RA(ch.ctx, rd.err)
    ELSE removeLoop(ch.ctx, c, cp, path, rd.h)

removeRead(rd, c, cp, path) ==
    removeRound(rd, removeNames(rd.ctx, c, cp, path, rd.names), c, cp, path)

\* the outer "for { ... }" of removeAll: one Readdirnames call per round
removeLoop(ctx, c, cp, path, h) ==
    removeRead(fileReaddirnames(ctx, h, ReaddirBatch), c, cp, path)

\* the end of removeAll on a directory: closeErr, the final fs.filer.Remove
\* (rm), and the deferred f.Close() of the directory handle o2
removeFinal(closeErr, o2, rm) ==
    RA(fileClose(rm.ctx, o2.h).ctx, IF rm.err # NoErr THEN rm.err ELSE closeErr)

\* c2 is the explicit f.Close() of the directory handle, cl the first Close
removeClosed(cl, o2, c2, path) ==
    removeFinal(IF c2.err # NoErr /\ cl.err = NoErr THEN c2.err ELSE cl.err,
                o2, mockRemove(c2.ctx, path))

\* removeAll without the deferred f.Close(): an error in the loop returns at once
removeListedLeaky(cl, o2, lp, path) ==
    IF lp.err # NoErr THEN RA(lp.ctx, lp.err)
    ELSE removeClosed(cl, o2, fileClose(lp.ctx, o2.h), path)

\* lp is what the loop over the entries came to; on its error only the
\* deferred f.Close() runs
removeListed(cl, o2, lp, path) ==
    IF lp.err # NoErr THEN RA(fileClose(lp.ctx, o2.h).ctx, lp.err)
    ELSE removeClosed(cl, o2, fileClose(lp.ctx, o2.h), path)

\* o2 is the second fs.Open(path)
removeReopened(cl, o2, c, cp, path) ==
    IF o2.err # NoErr THEN RA(o2.ctx, o2.err)
    ELSE removeListed(cl, o2, removeLoop(o2.ctx, c, cp, path, o2.h), path)

removeFile(r) == RA(r.ctx, r.err)

\* s is what f.Stat() answered, cl the f.Close() after it
removeStatted(s, cl, c, cp, path) ==
    IF s.err # NoErr THEN RA(cl.ctx, s.err)
    ELSE IF ~s.val.isDir THEN removeFile(fsRemove(cl.ctx, c, cp, path))
    ELSE removeReopened(cl, fsOpen(cl.ctx, c, cp, path), c, cp, path)

removeStat(o, s, c, cp, path) == removeStatted(s, fileClose(s.ctx, o.h), c, cp, path)

\* o is the first fs.Open(path)
removeOpened(o, c, cp, path) ==
    IF o.err # NoErr THEN RA(o.ctx, o.err)
    ELSE removeStat(o, fileStat(o.ctx, o.h), c, cp, path)

removeAll(ctx, c, cp, path) == removeOpened(fsOpen(ctx, c, cp, path), c, cp, path)

removeAllResult(r, c) == [ctx |-> r.ctx, cwd |-> c, err |-> r.err, val |-> NoVal, h |-> NoHandle]

fsRemoveAll(ctx, c, cp, name) ==
    IF "remover" \in cp THEN FsRes(nativeRemoveAll(ctx, name), c)
    ELSE removeAllResult(removeAll(ctx, c, cp, Resolve(c, cp, name)), c)

\* "return f.Close()"
truncateClosed(cl, c) ==
    [ctx |-> cl.ctx, cwd |-> c, err |-> cl.err, val |-> NoVal, h |-> NoHandle]

\* Truncate after fs.filer.OpenFile answered o
truncateOpened(o, c) ==
    IF o.err # NoErr
    THEN [ctx |-> o.ctx, cwd |-> c, err |-> o.err, val |-> NoVal, h |-> NoHandle]
    ELSE truncateClosed(fileClose(o.ctx, o.h), c)

fsTruncate(ctx, c, cp, name, size) ==
    IF "truncater" \in cp THEN FsRes(nativeTruncate(ctx, name, size), c)
    ELSE truncateOpened(mockOpenFile(ctx, Resolve(c, cp, name), {"O_WRONLY", "O_TRUNC"}), c)

----------------------------------------------------------------------------
(* The state machine: one caller, one wrapper, one backend *)

\* the kinds of backend: mockFiler, mockFilerWithOptionals, a backend that only
\* navigates, and one with every native method except navigation
CapSets == {{}, AllCaps, {"dirnavigator"}, AllCaps \ {"dirnavigator"}}

\* the path arguments the caller passes, per operation: absolute and relative
\* names of the directories a and b and of the file f, and the virtual-absolute
\* name \a, which nothing is ever created under; /a/b/../f is /a/f unnormalized
PathArgs ==
    { <<"/", "a", "/", "f">>, <<"b">>, <<"f">>, <<"\\", "a">>,
      <<"/", "a", "/", "b", "/", ".", ".", "/", "f">> }

ChdirArgs == { <<"/", "a">>, <<"b">>, <<"f">>, <<"\\", "a">> }

OpenArgs == { <<"/", "a">>, <<"b">>, <<"f">> }

RemoveArgs == { <<"/", "a", "/", "f">>, <<"f">>, <<"b">> }

RemoveAllArgs == { <<"/", "a">>, <<"/", "a", "/", "f">>, <<"b">>, <<"f">> }

DirArgs == { <<"/", "a">>, <<"/", "a", "/", "b">>, <<"b">> }

MkdirAllArgs == { <<"/", "a", "/", "b">>, <<"b">> }

FileArgs == { <<"/", "a", "/", "f">>, <<"f">> }

AttrArgs == { <<"f">>, <<"\\", "a">> }

\* the backend as ExtendFiler finds it: /a holds the file f and the directory
\* b, which holds a file f of its own
Tree ==
    LET a == <<"/", "a">>
        ab == <<"/", "a", "/", "b">>
        af == <<"/", "a", "/", "f">>
        abf == <<"/", "a", "/", "b", "/", "f">>
    IN [k \in {a, ab, af, abf} |->
           IF k \in {a, ab} THEN NewDir
           ELSE IF k = af THEN [isDir |-> FALSE, content |-> <<1, 1>>]
           ELSE [isDir |-> FALSE, content |-> <<1>>]]

OpenFlags == { {"O_CREATE", "O_RDWR"}, {"O_WRONLY", "O_TRUNC"} }

Sizes == 0..MaxSize

NoHeld == [key |-> <<>>, off |-> 0, live |-> FALSE]

HeldOf(r) == IF r.err = NoErr THEN [key |-> r.h.key, off |-> 0, live |-> TRUE] ELSE NoHeld

Ctx0(failAt) == Ctx(files, nav, failAt, FALSE, FALSE)

\* ExtendFiler over a backend of one of the kinds in kinds
NoPeer == [cwd |-> RootDir, who |-> 1]

NoCall == [pc |-> "idle", op |-> "", name |-> <<>>, seen |-> <<>>,
           calls |-> <<>>, ref |-> <<>>]

NoThreads == [work |-> NoCall, chdir |-> [pc |-> "idle", to |-> <<>>], wrote |-> {}]

NoFcall == [op |-> "", self |-> 0, arg |-> 0, ret |-> 0, err |-> NoErr,
            panicked |-> FALSE]

NoPure == [fn |-> "", mode |-> 0, set |-> {}, f |-> 0, s |-> <<>>, val |-> 0,
           err |-> "nil", panicked |-> FALSE]

NoRemoveAll == [stack |-> <<>>, done |-> FALSE, err |-> NoErr, stalled |-> FALSE]

\* the wrapper of ExtendFiler(filer) over the mock backend
WrapperInit(kinds) ==
    /\ pure = NoPure
    /\ ra = NoRemoveAll
    /\ peer = NoPeer
    /\ th = NoThreads
    /\ files = Tree
    /\ nav = RootDir
    /\ caps \in kinds
    /\ cwd = RootDir
    /\ held = NoHeld
    /\ moved = FALSE
    /\ last = [op |-> "ExtendFiler", name |-> <<>>, name2 |-> <<>>, flag |-> NoFlag,
               size |-> 0, failAt |-> 0, cwd0 |-> RootDir, calls |-> <<>>,
               shadow |-> <<>>, err |-> NoErr, val |-> NoVal]

InitWith(kinds) ==
    /\ WrapperInit(kinds)
    /\ heap = <<>>
    /\ fcall = NoFcall

Init == InitWith(CapSets)

\* r is the operation as this wrapper runs it, rs the same operation as a
\* wrapper fresh from ExtendFiler (working directory "/") would run it
Commit(op, name, name2, flag, size, failAt, r, rs, hd) ==
    /\ \/ Cardinality(DOMAIN r.ctx.files) <= MaxFiles
       \/ Cardinality(DOMAIN r.ctx.files) <= Cardinality(DOMAIN files)
    /\ files' = r.ctx.files
    /\ nav' = r.ctx.nav
    /\ caps' = caps
    /\ cwd' = r.cwd
    /\ held' = hd
    /\ moved' = (moved \/ (op = "Chdir" /\ r.err = NoErr /\ "dirnavigator" \notin caps))
    /\ last' = [op |-> op, name |-> name, name2 |-> name2, flag |-> flag,
                size |-> size, failAt |-> failAt, cwd0 |-> cwd, calls |-> r.ctx.calls,
                shadow |-> IF cwd = RootDir THEN r.ctx.calls ELSE rs.ctx.calls,
                err |-> r.err, val |-> r.val]
    /\ UNCHANGED others

Faults1 == {0}

OpenFile ==
    \E name \in FileArgs, flag \in OpenFlags, fa \in Faults1 :
        LET r == fsOpenFile(Ctx0(fa), cwd, caps, name, flag)
        IN /\ Commit("OpenFile", name, <<>>, flag, 0, fa, r,
                     fsOpenFile(Ctx0(fa), RootDir, caps, name, flag), HeldOf(r))

Mkdir ==
    \E name \in DirArgs, fa \in Faults1 :
        /\ Commit("Mkdir", name, <<>>, NoFlag, 0, fa,
                  fsMkdir(Ctx0(fa), cwd, caps, name),
                  fsMkdir(Ctx0(fa), RootDir, caps, name), NoHeld)

Remove ==
    \E name \in RemoveArgs, fa \in Faults1 :
        /\ Commit("Remove", name, <<>>, NoFlag, 0, fa,
                  fsRemove(Ctx0(fa), cwd, caps, name),
                  fsRemove(Ctx0(fa), RootDir, caps, name), NoHeld)

Rename ==
    \E oldpath \in FileArgs, newpath \in FileArgs, fa \in Faults1 :
        /\ Commit("Rename", oldpath, newpath, NoFlag, 0, fa,
                  fsRename(Ctx0(fa), cwd, caps, oldpath, newpath),
                  fsRename(Ctx0(fa), RootDir, caps, oldpath, newpath), NoHeld)

Stat ==
    \E name \in PathArgs, fa \in Faults1 :
        /\ Commit("Stat", name, <<>>, NoFlag, 0, fa,
                  fsStat(Ctx0(fa), cwd, caps, name),
                  fsStat(Ctx0(fa), RootDir, caps, name), NoHeld)

Chmod ==
    \E name \in AttrArgs, fa \in Faults1 :
        /\ Commit("Chmod", name, <<>>, NoFlag, 0, fa,
                  fsChmod(Ctx0(fa), cwd, caps, name),
                  fsChmod(Ctx0(fa), RootDir, caps, name), NoHeld)

Chtimes ==
    \E name \in AttrArgs, fa \in Faults1 :
        /\ Commit("Chtimes", name, <<>>, NoFlag, 0, fa,
                  fsChtimes(Ctx0(fa), cwd, caps, name),
                  fsChtimes(Ctx0(fa), RootDir, caps, name), NoHeld)

Chown ==
    \E name \in AttrArgs, fa \in Faults1 :
        /\ Commit("Chown", name, <<>>, NoFlag, 0, fa,
                  fsChown(Ctx0(fa), cwd, caps, name),
                  fsChown(Ctx0(fa), RootDir, caps, name), NoHeld)

Separator ==
    /\ Commit("Separator", <<>>, <<>>, NoFlag, 0, 0,
              fsSeparator(Ctx0(0), cwd, caps), fsSeparator(Ctx0(0), RootDir, caps), NoHeld)

ListSeparator ==
    /\ Commit("ListSeparator", <<>>, <<>>, NoFlag, 0, 0,
              fsListSeparator(Ctx0(0), cwd, caps),
              fsListSeparator(Ctx0(0), RootDir, caps), NoHeld)

TempDir ==
    /\ Commit("TempDir", <<>>, <<>>, NoFlag, 0, 0,
              fsTempDir(Ctx0(0), cwd, caps), fsTempDir(Ctx0(0), RootDir, caps), NoHeld)

Chdir ==
    \E dir \in ChdirArgs, fa \in Faults1 :
        /\ Commit("Chdir", dir, <<>>, NoFlag, 0, fa,
                  fsChdir(Ctx0(fa), cwd, caps, dir),
                  fsChdir(Ctx0(fa), RootDir, caps, dir), NoHeld)

Getwd ==
    \E fa \in Faults1 :
        /\ Commit("Getwd", <<>>, <<>>, NoFlag, 0, fa,
                  fsGetwd(Ctx0(fa), cwd, caps), fsGetwd(Ctx0(fa), RootDir, caps), NoHeld)

Open ==
    \E name \in OpenArgs, fa \in Faults1 :
        LET r == fsOpen(Ctx0(fa), cwd, caps, name)
        IN /\ Commit("Open", name, <<>>, NoFlag, 0, fa, r,
                     fsOpen(Ctx0(fa), RootDir, caps, name), HeldOf(r))

Create ==
    \E name \in FileArgs, fa \in Faults1 :
        LET r == fsCreate(Ctx0(fa), cwd, caps, name)
        IN /\ Commit("Create", name, <<>>, NoFlag, 0, fa, r,
                     fsCreate(Ctx0(fa), RootDir, caps, name), HeldOf(r))

MkdirAll ==
    \E name \in MkdirAllArgs, fa \in Faults1 :
        /\ Commit("MkdirAll", name, <<>>, NoFlag, 0, fa,
                  fsMkdirAll(Ctx0(fa), cwd, caps, name),
                  fsMkdirAll(Ctx0(fa), RootDir, caps, name), NoHeld)

\* the directory handles of the backend either enumerate plainly, or list "."
\* and ".." as well and send io.EOF together with the last names
RemoveAll ==
    \E name \in RemoveAllArgs, fa \in Faults1, odd \in BOOLEAN :
        /\ Commit("RemoveAll", name, <<>>, NoFlag, 0, fa,
                  fsRemoveAll(Ctx(files, nav, fa, odd, odd), cwd, caps, name),
                  fsRemoveAll(Ctx(files, nav, fa, odd, odd), RootDir, caps, name), NoHeld)

Truncate ==
    \E name \in FileArgs, size \in Sizes, fa \in Faults1 :
        /\ Commit("Truncate", name, <<>>, NoFlag, size, fa,
                  fsTruncate(Ctx0(fa), cwd, caps, name, size),
                  fsTruncate(Ctx0(fa), RootDir, caps, name, size), NoHeld)

\* mockFileHandle.Write of one data byte by the caller, on the handle it holds
WriteAt1(content, off) ==
    LET padded == IF off > Len(content)
                  THEN content \o [i \in 1..(off - Len(content)) |-> 0]
                  ELSE content
    IN IF off = Len(padded) THEN Append(padded, 1)
       ELSE [padded EXCEPT ![off + 1] = 1]

FileWrite ==
    /\ held.live
    /\ held.key \in DOMAIN files
    /\ ~files[held.key].isDir
    /\ Len(WriteAt1(files[held.key].content, held.off)) <= MaxSize
    /\ held.off < MaxSize
    /\ files' = [files EXCEPT ![held.key].content = WriteAt1(@, held.off)]
    /\ held' = [held EXCEPT !.off = @ + 1]
    /\ last' = [op |-> "File.Write", name |-> held.key, name2 |-> <<>>, flag |-> NoFlag,
                size |-> 1, failAt |-> 0, cwd0 |-> cwd, calls |-> <<>>,
                shadow |-> <<>>, err |-> NoErr, val |-> NoVal]
    /\ UNCHANGED <<nav, caps, cwd, moved>>
    /\ UNCHANGED others

FileClose ==
    /\ held.live
    /\ held' = NoHeld
    /\ last' = [op |-> "File.Close", name |-> held.key, name2 |-> <<>>, flag |-> NoFlag,
                size |-> 0, failAt |-> 0, cwd0 |-> cwd, calls |-> <<>>,
                shadow |-> <<>>, err |-> NoErr, val |-> NoVal]
    /\ UNCHANGED <<files, nav, caps, cwd, moved>>
    /\ UNCHANGED others

Next ==
    \/ OpenFile \/ Mkdir \/ Remove \/ Rename \/ Stat \/ Chmod \/ Chtimes \/ Chown
    \/ Separator \/ ListSeparator \/ TempDir \/ Chdir \/ Getwd
    \/ Open \/ Create \/ MkdirAll \/ RemoveAll \/ Truncate
    \/ FileWrite \/ FileClose

Spec == Init /\ [][Next]_vars

----------------------------------------------------------------------------
(* The generic algorithms over a backend whose calls may fail: the call     *)
(* number failAt of an operation, on the backend or on a handle, returns an *)
(* error the backend chose (permission denied, an I/O error); 0 is no       *)
(* failure.                                                                 *)

Faults == 0..MaxFailAt

\* backends that leave MkdirAll, RemoveAll and Truncate to the wrapper: the
\* plain mockFiler, one with its own Open, one that navigates by itself
FaultCaps == {{}, {"opener"}, {"dirnavigator"}}

MkdirAllFaultArgs ==
    { <<"/", "a", "/", "b">>, <<"/", "a", "/", "f">>, <<"b">>, <<"/">> }

FaultInit == InitWith(FaultCaps)

\* one operation under a failure: the environment makes at most one call fail
\* in a run, a call the operation does make, and the caller stops there
FaultCommit(op, name, size, failAt, r, rs) ==
    /\ last.failAt = 0
    /\ failAt <= Len(r.ctx.calls)
    /\ Commit(op, name, <<>>, NoFlag, size, failAt, r, rs, NoHeld)

FaultyMkdirAll ==
    \E name \in MkdirAllFaultArgs, fa \in Faults :
        /\ FaultCommit("MkdirAll", name, 0, fa,
                       fsMkdirAll(Ctx0(fa), cwd, caps, name),
                       fsMkdirAll(Ctx0(fa), RootDir, caps, name))

FaultyRemoveAll ==
    \E name \in RemoveAllArgs, fa \in Faults, odd \in BOOLEAN :
        /\ FaultCommit("RemoveAll", name, 0, fa,
                       fsRemoveAll(Ctx(files, nav, fa, odd, odd), cwd, caps, name),
                       fsRemoveAll(Ctx(files, nav, fa, odd, odd), RootDir, caps, name))

FaultyChdir ==
    \E dir \in ChdirArgs, fa \in Faults :
        /\ FaultCommit("Chdir", dir, 0, fa,
                       fsChdir(Ctx0(fa), cwd, caps, dir),
                       fsChdir(Ctx0(fa), RootDir, caps, dir))

FaultyTruncate ==
    \E name \in FileArgs, size \in Sizes, fa \in Faults :
        /\ FaultCommit("Truncate", name, size, fa,
                       fsTruncate(Ctx0(fa), cwd, caps, name, size),
                       fsTruncate(Ctx0(fa), RootDir, caps, name, size))

\* Mkdir, Remove and Create, without failures, build the trees the generic
\* algorithms then run on
FaultSetup ==
    /\ last.failAt = 0
    /\ (Mkdir \/ Remove \/ Create)

FaultNext ==
    \/ FaultSetup
    \/ FaultyMkdirAll \/ FaultyRemoveAll \/ FaultyChdir \/ FaultyTruncate

FaultSpec == FaultInit /\ [][FaultNext]_vars

----------------------------------------------------------------------------
(* Two wrappers, each from its own call of ExtendFiler, over one backend.   *)
(* ExtendFiler allocates a new fs{cwd, filer} per call; the filer is the    *)
(* caller's value, so both wrappers call the same backend.                  *)

Wrappers == {1, 2}

\* fs.cwd of wrapper w
CwdOf(w) == IF w = 1 THEN cwd ELSE peer.cwd

\* the backends of the two-wrapper runs: mockFiler, and one that navigates
TwoCaps == {{}, {"dirnavigator"}}

TwoInit == InitWith(TwoCaps)

\* wrapper w has run an operation that came to r
TwoCommit(w, op, name, r) ==
    /\ \/ Cardinality(DOMAIN r.ctx.files) <= MaxFiles
       \/ Cardinality(DOMAIN r.ctx.files) <= Cardinality(DOMAIN files)
    /\ files' = r.ctx.files
    /\ nav' = r.ctx.nav
    /\ cwd' = (IF w = 1 THEN r.cwd ELSE cwd)
    /\ peer' = [cwd |-> (IF w = 2 THEN r.cwd ELSE peer.cwd), who |-> w]
    /\ last' = [op |-> op, name |-> name, name2 |-> <<>>, flag |-> NoFlag,
                size |-> 0, failAt |-> 0, cwd0 |-> CwdOf(w), calls |-> r.ctx.calls,
                shadow |-> <<>>, err |-> r.err, val |-> r.val]
    /\ UNCHANGED <<caps, held, moved, th, heap, fcall, pure, ra>>

TwoChdir ==
    \E w \in Wrappers, dir \in ChdirArgs :
        /\ TwoCommit(w, "Chdir", dir, fsChdir(Ctx0(0), CwdOf(w), caps, dir))

TwoGetwd ==
    \E w \in Wrappers :
        /\ TwoCommit(w, "Getwd", <<>>, fsGetwd(Ctx0(0), CwdOf(w), caps))

TwoMkdir ==
    \E w \in Wrappers, name \in DirArgs :
        /\ TwoCommit(w, "Mkdir", name, fsMkdir(Ctx0(0), CwdOf(w), caps, name))

TwoRemove ==
    \E w \in Wrappers, name \in RemoveArgs :
        /\ TwoCommit(w, "Remove", name, fsRemove(Ctx0(0), CwdOf(w), caps, name))

TwoStat ==
    \E w \in Wrappers, name \in PathArgs :
        /\ TwoCommit(w, "Stat", name, fsStat(Ctx0(0), CwdOf(w), caps, name))

TwoNext == TwoChdir \/ TwoGetwd \/ TwoMkdir \/ TwoRemove \/ TwoStat

TwoSpec == TwoInit /\ [][TwoNext]_vars

----------------------------------------------------------------------------
(* Two threads in one wrapper, without a lock: one calls Chdir, the other   *)
(* the path-taking methods.  fs.cwd is a string that Chdir writes and the   *)
(* path resolution reads, unsynchronised: a read that races with a write    *)
(* may return the initial value, any value written so far, or the data      *)
(* pointer of one value with the length of another.                         *)

\* data pointer of v1 with the length of v2; the bytes past the end of v1 are
\* whatever lies behind it in memory, written "?"
Torn(v1, v2) ==
    IF Len(v2) <= Len(v1) THEN SubSeq(v1, 1, Len(v2))
    ELSE v1 \o [i \in 1..(Len(v2) - Len(v1)) |-> "?"]

\* what the thread that does not call Chdir may find in fs.cwd
Readable ==
    LET whole == {RootDir} \cup th.wrote
    IN whole \cup {Torn(v1, v2) : v1 \in whole, v2 \in whole}

\* the calls of the working thread; RemoveAll and MkdirAll resolve again in
\* every call they make on the wrapper, and are called with absolute names
WorkArgs ==
    {<<"Stat", <<"/", "a", "/", "f">>>>, <<"Stat", <<"f">>>>, <<"Stat", <<"\\", "a">>>>,
     <<"Mkdir", <<"/", "a", "/", "b">>>>, <<"Mkdir", <<"b">>>>,
     <<"Remove", <<"/", "a", "/", "f">>>>, <<"Remove", <<"b">>>>,
     <<"Open", <<"/", "a", "/", "f">>>>, <<"Open", <<"f">>>>,
     <<"RemoveAll", <<"/", "a", "/", "b">>>>, <<"MkdirAll", <<"/", "a", "/", "b">>>>}

\* the method op of a wrapper that finds c in fs.cwd
RunOp(op, ctx, c, cp, name) ==
    CASE op = "Stat" -> fsStat(ctx, c, cp, name)
      [] op = "Mkdir" -> fsMkdir(ctx, c, cp, name)
      [] op = "Remove" -> fsRemove(ctx, c, cp, name)
      [] op = "Open" -> fsOpen(ctx, c, cp, name)
      [] op = "RemoveAll" -> fsRemoveAll(ctx, c, cp, name)
      [] op = "MkdirAll" -> fsMkdirAll(ctx, c, cp, name)

ConcCaps == {{}, {"dirnavigator"}}

ConcInit == InitWith(ConcCaps)

\* the working thread enters a method: the value fs.cwd shows it
WorkCall ==
    \E a \in WorkArgs, v \in Readable :
        /\ th.work.pc # "called"
        /\ th' = [th EXCEPT !.work = [pc |-> "called", op |-> a[1], name |-> a[2],
                                       seen |-> v, calls |-> <<>>, ref |-> <<>>]]
        /\ UNCHANGED <<files, nav, caps, cwd, held, moved, last, peer, heap, fcall, pure, ra>>

\* r is the method as the thread runs it, rr as a wrapper nobody has called
\* Chdir on runs it
WorkCommit(r, rr) ==
    /\ \/ Cardinality(DOMAIN r.ctx.files) <= MaxFiles
       \/ Cardinality(DOMAIN r.ctx.files) <= Cardinality(DOMAIN files)
    /\ files' = r.ctx.files
    /\ nav' = r.ctx.nav
    /\ th' = [th EXCEPT !.work.pc = "done", !.work.calls = r.ctx.calls,
                        !.work.ref = rr.ctx.calls]
    /\ UNCHANGED <<caps, cwd, held, moved, last, peer, heap, fcall, pure, ra>>

\* the working thread makes its calls on the backend and returns
WorkReturn ==
    /\ th.work.pc = "called"
    /\ WorkCommit(RunOp(th.work.op, Ctx0(0), th.work.seen, caps, th.work.name),
                  RunOp(th.work.op, Ctx0(0), RootDir, caps, th.work.name))

ChdirCommit(r) ==
    /\ nav' = r.ctx.nav
    /\ th' = [th EXCEPT !.chdir =
                  IF r.err = NoErr /\ "dirnavigator" \notin caps
                  THEN [pc |-> "store", to |-> r.cwd]
                  ELSE [pc |-> "idle", to |-> <<>>]]
    /\ UNCHANGED <<files, caps, cwd, held, moved, last, peer, heap, fcall, pure, ra>>

\* the other thread in Chdir, up to the assignment: it is the only writer of
\* fs.cwd, so it reads what it wrote last
ChdirCall ==
    \E dir \in ChdirArgs :
        /\ th.chdir.pc = "idle"
        /\ ChdirCommit(fsChdir(Ctx0(0), cwd, caps, dir))

\* "fs.cwd = filepath.Clean(dir)"
ChdirStore ==
    /\ th.chdir.pc = "store"
    /\ cwd' = th.chdir.to
    /\ th' = [th EXCEPT !.chdir = [pc |-> "idle", to |-> <<>>],
                        !.wrote = @ \cup {th.chdir.to}]
    /\ UNCHANGED <<files, nav, caps, held, moved, last, peer, heap, fcall, pure, ra>>

ConcNext == WorkCall \/ WorkReturn \/ ChdirCall \/ ChdirStore

ConcSpec == ConcInit /\ [][ConcNext]_vars

----------------------------------------------------------------------------
(* fs.Rename next to a Chdir of another thread.  Rename reads fs.cwd once   *)
(* for oldpath and once more for newpath; each read is a step of its own.   *)

RenameNames == { <<"f">>, <<"g">>, <<"/", "a", "/", "f">> }

\* fs.Rename that keeps for newpath the name the caller gave
fsRenameReadsOnce(ctx, c1, c2, cp, oldpath, newpath) ==
    FsRes(mockRename(ctx, Resolve(c1, cp, oldpath), newpath), c2)

\* fs.Rename that finds c1 in fs.cwd when it resolves oldpath and c2 when it
\* resolves newpath
fsRenameReads(ctx, c1, c2, cp, oldpath, newpath) ==
    FsRes(mockRename(ctx, Resolve(c1, cp, oldpath), Resolve(c2, cp, newpath)), c2)

\* the working thread enters Rename and resolves oldpath
RenameCall ==
    \E o \in RenameNames, n \in RenameNames, v \in Readable :
        /\ th.work.pc \in {"idle", "done"}
        /\ o # n
        /\ th' = [th EXCEPT !.work = [pc |-> "old", op |-> "Rename", name |-> o,
                                       name2 |-> n, seen |-> v, seen2 |-> <<>>,
                                       calls |-> <<>>, ref |-> <<>>]]
        /\ UNCHANGED <<files, nav, caps, cwd, held, moved, last, peer, heap, fcall, pure, ra>>

\* it resolves newpath
RenameReread ==
    \E v \in Readable :
        /\ th.work.pc = "old"
        /\ th' = [th EXCEPT !.work.pc = "new", !.work.seen2 = v]
        /\ UNCHANGED <<files, nav, caps, cwd, held, moved, last, peer, heap, fcall, pure, ra>>

RenameCommit(r) ==
    /\ files' = r.ctx.files
    /\ nav' = r.ctx.nav
    /\ th' = [th EXCEPT !.work.pc = "done", !.work.calls = r.ctx.calls]
    /\ UNCHANGED <<caps, cwd, held, moved, last, peer, heap, fcall, pure, ra>>

\* "return fs.filer.Rename(oldpath, newpath)"
RenameReturn ==
    /\ th.work.pc = "new"
    /\ RenameCommit(fsRenameReads(Ctx0(0), th.work.seen, th.work.seen2, caps,
                                  th.work.name, th.work.name2))

RaceNext == RenameCall \/ RenameReread \/ RenameReturn \/ ChdirCall \/ ChdirStore

RaceSpec == ConcInit /\ [][RaceNext]_vars

----------------------------------------------------------------------------
(* file.go: ExtendUnseekable turns a handle that can only Read, Write and   *)
(* Close into one that can Seek, by keeping the whole content in memory;    *)
(* ExtendSeekable puts the File adapter around a Seekable.                  *)

MaxBuf == 2       \* the longest buffer a seekbuffer grows to
MaxOff == 2       \* Seek is called while the offset stays in -1..MaxOff
MaxObjects == 4   \* the handles allocated in one run

\* the handle handed to ExtendUnseekable: what is left to read from it, the
\* calls that the function or method of file.go that ran last made on it,
\* and whether a Write on it has ever come up short
Unseekable(content) ==
    [type |-> "unseekable", rest |-> content, calls |-> <<>>, short |-> FALSE]

Contents == { <<>>, <<1>> }

WriteArgs == { <<7>>, <<7, 7>> }

Zeros(n) == [i \in 1..n |-> 0]

Refs(h, type) == { i \in DOMAIN h : h[i].type = type }

\* a function or method of file.go is entered
Entered(h, u) == [h EXCEPT ![u].calls = <<>>]

\* a call on the underlying handle
Called(h, u, call) ==
    [h EXCEPT ![u].calls = Append(@, call),
              ![u].short = @ \/ (call.m = "Write" /\ call.n < Len(call.p))]

FReturn(h, ret, err, panicked) ==
    [heap |-> h, ret |-> ret, err |-> err, panicked |-> panicked]

\* ioutil.ReadAll(uf), then &seekbuffer{data, 0, uf}; fail is a Read of the
\* handle that returns an error other than EOF
ExtendUnseekable(h, u, fail) ==
    LET read == [Called(Entered(h, u), u, [m |-> "Read", p |-> h[u].rest, n |-> Len(h[u].rest)])
                     EXCEPT ![u].rest = <<>>]
    IN IF fail
       THEN FReturn(Called(Entered(h, u), u, [m |-> "Read", p |-> <<>>, n |-> 0]),
                    0, Injected, FALSE)
       ELSE FReturn(Append(read, [type |-> "seekbuffer", data |-> h[u].rest,
                                  offset |-> 0, uf |-> u]),
                    Len(h) + 1, NoErr, FALSE)

\* return &file{sf}
ExtendSeekable(h, sf) ==
    FReturn(Append(h, [type |-> "file", sf |-> sf]), Len(h) + 1, NoErr, FALSE)

\* sb.Read(p) with len(p) = n; a negative offset is a slice out of range
sbRead(h, s, n) ==
    LET sb == h[s]
        h0 == Entered(h, sb.uf)
        k == Min(n, Len(sb.data) - sb.offset)
    IN IF sb.offset >= Len(sb.data) THEN FReturn(h0, 0, EOF, FALSE)
       ELSE IF sb.offset < 0 THEN FReturn(h0, 0, NoErr, TRUE)
       ELSE FReturn([h0 EXCEPT ![s].offset = @ + k], k, NoErr, FALSE)

\* sb.Write(p): the buffer grows to hold p at the offset, the offset stays
sbWrite(h, s, p) ==
    LET sb == h[s]
        h0 == Entered(h, sb.uf)
        grown == IF Len(p) + sb.offset > Len(sb.data)
                 THEN sb.data \o Zeros(Len(p) + sb.offset - Len(sb.data))
                 ELSE sb.data
        k == Min(Len(p), Len(grown) - sb.offset)
        data == [i \in 1..Len(grown) |->
                    IF i > sb.offset /\ i <= sb.offset + k THEN p[i - sb.offset]
                    ELSE grown[i]]
    IN IF sb.offset < 0 THEN FReturn([h0 EXCEPT ![s].data = grown], 0, NoErr, TRUE)
       ELSE FReturn([h0 EXCEPT ![s].data = data], k, NoErr, FALSE)

\* sb.Seek(offset, whence)
sbSeek(h, s, offset, whence) ==
    LET sb == h[s]
        to == CASE whence = 0 -> offset
                [] whence = 1 -> sb.offset + offset
                [] whence = 2 -> Len(sb.data) + offset
                [] OTHER -> sb.offset
    IN FReturn([Entered(h, sb.uf) EXCEPT ![s].offset = to], to, NoErr, FALSE)

\* a Sync that flushes only what lies behind the offset
sbSyncFromOffset(h, s, n, serr) ==
    LET sb == h[s]
        from == IF sb.offset < 0 THEN 0 ELSE Min(sb.offset, Len(sb.data))
        part == SubSeq(sb.data, from + 1, Len(sb.data))
        k == Min(n, Len(part))
        wrote == Called(Entered(h, sb.uf), sb.uf, [m |-> "Write", p |-> part, n |-> k])
    IN IF k # Len(part) THEN FReturn(wrote, 0, NoErr, TRUE)
       ELSE FReturn(Called(wrote, sb.uf, [m |-> "Sync", p |-> <<>>, n |-> 0]), 0,
                    IF serr THEN Injected ELSE NoErr, FALSE)

\* sb.Sync(): uf.Write(sb.data) accepts n bytes, and its error is dropped;
\* then uf.Sync(), with an error or without
sbSync(h, s, n, serr) ==
    LET sb == h[s]
        wrote == Called(Entered(h, sb.uf), sb.uf, [m |-> "Write", p |-> sb.data, n |-> n])
    IN IF n # Len(sb.data) THEN FReturn(wrote, 0, NoErr, TRUE)
       ELSE FReturn(Called(wrote, sb.uf, [m |-> "Sync", p |-> <<>>, n |-> 0]), 0,
                    IF serr THEN Injected ELSE NoErr, FALSE)

\* sb.Close(): Sync, and uf.Close() when Sync returned no error
sbClose(h, s, n, serr, cerr) ==
    LET r == sbSync(h, s, n, serr)
    IN IF r.panicked \/ r.err # NoErr THEN r
       ELSE FReturn(Called(r.heap, h[s].uf, [m |-> "Close", p |-> <<>>, n |-> 0]), 0,
                    IF cerr THEN Injected ELSE NoErr, FALSE)

FileInit ==
    /\ WrapperInit({{}})
    /\ heap \in { <<Unseekable(content)>> : content \in Contents }
    /\ fcall = NoFcall

FileCommit(op, self, r) ==
    /\ heap' = r.heap
    /\ fcall' = [op |-> op, self |-> self, arg |-> 0, ret |-> r.ret, err |-> r.err,
                 panicked |-> r.panicked]
    /\ UNCHANGED <<files, nav, caps, cwd, held, moved, last, peer, th, pure, ra>>

DoExtendUnseekable ==
    \E u \in Refs(heap, "unseekable"), fail \in BOOLEAN :
        /\ Refs(heap, "seekbuffer") = {}
        /\ FileCommit("ExtendUnseekable", u, ExtendUnseekable(heap, u, fail))

DoExtendSeekable ==
    \E sf \in Refs(heap, "seekbuffer") \cup Refs(heap, "file") :
        /\ Len(heap) < MaxObjects
        /\ FileCommit("ExtendSeekable", sf, ExtendSeekable(heap, sf))

SbRead ==
    \E s \in Refs(heap, "seekbuffer"), n \in 1..2 :
        /\ FileCommit("Read", s, sbRead(heap, s, n))

SbWrite ==
    \E s \in Refs(heap, "seekbuffer"), p \in WriteArgs :
        /\ Len(p) + heap[s].offset <= MaxBuf
        /\ FileCommit("Write", s, sbWrite(heap, s, p))

SbSeek ==
    \E s \in Refs(heap, "seekbuffer"), offset \in -1..1, whence \in 0..3 :
        /\ sbSeek(heap, s, offset, whence).ret \in -1..MaxOff
        /\ FileCommit("Seek", s, sbSeek(heap, s, offset, whence))

\* the underlying Write accepts all of the buffer or less of it
SbSync ==
    \E s \in Refs(heap, "seekbuffer"), serr \in BOOLEAN :
        \E n \in 0..Len(heap[s].data) :
            /\ FileCommit("Sync", s, sbSync(heap, s, n, serr))

SbClose ==
    \E s \in Refs(heap, "seekbuffer"), serr \in BOOLEAN, cerr \in BOOLEAN :
        \E n \in 0..Len(heap[s].data) :
            /\ FileCommit("Close", s, sbClose(heap, s, n, serr, cerr))

FileNext ==
    \/ DoExtendUnseekable \/ DoExtendSeekable
    \/ SbRead \/ SbWrite \/ SbSeek \/ SbSync \/ SbClose

FileSpec == FileInit /\ [][FileNext]_vars

----------------------------------------------------------------------------
(* file.go: the File adapter of ExtendSeekable over a Seekable with none of *)
(* the optional methods: the testSeekable of filemode_test.go, or the       *)
(* seekbuffer of ExtendUnseekable.                                          *)

TruncateChunk == 512

\* &testSeekable{data: content}
TestSeekable(content) == [type |-> "testSeekable", data |-> content, offset |-> 0]

ErrInvalid == PathError("seek", <<>>, "ErrInvalid")

\* testSeekable.Read(p) with len(p) = n
tsRead(h, t, n) ==
    LET k == Min(n, Len(h[t].data) - h[t].offset)
    IN IF h[t].offset >= Len(h[t].data) THEN FReturn(h, 0, EOF, FALSE)
       ELSE FReturn([h EXCEPT ![t].offset = @ + k], k,
                    IF k < n THEN EOF ELSE NoErr, FALSE)

\* testSeekable.Write(p)
tsWrite(h, t, p) ==
    LET off == h[t].offset
        padded == IF off > Len(h[t].data)
                  THEN h[t].data \o Zeros(off - Len(h[t].data))
                  ELSE h[t].data
        data == IF off = Len(padded) THEN padded \o p
                ELSE IF off + Len(p) > Len(padded) THEN SubSeq(padded, 1, off) \o p
                ELSE [i \in 1..Len(padded) |->
                         IF i > off /\ i <= off + Len(p) THEN p[i - off] ELSE padded[i]]
    IN FReturn([h EXCEPT ![t].data = data, ![t].offset = off + Len(p)],
               Len(p), NoErr, FALSE)

\* testSeekable.Seek(offset, whence)
tsSeek(h, t, offset, whence) ==
    LET to == CASE whence = 0 -> offset
                [] whence = 1 -> h[t].offset + offset
                [] whence = 2 -> Len(h[t].data) + offset
                [] OTHER -> -1
    IN IF whence \notin 0..2 \/ to < 0 THEN FReturn(h, 0, ErrInvalid, FALSE)
       ELSE FReturn([h EXCEPT ![t].offset = to], to, NoErr, FALSE)

RECURSIVE sfRead(_, _, _)
\* f.sf.Read(p): the method of whatever the adapter holds
sfRead(h, sf, n) ==
    CASE h[sf].type = "testSeekable" -> tsRead(h, sf, n)
      [] h[sf].type = "seekbuffer" -> sbRead(h, sf, n)
      [] h[sf].type = "file" -> sfRead(h, h[sf].sf, n)

RECURSIVE sfWrite(_, _, _)
\* f.sf.Write(p)
sfWrite(h, sf, p) ==
    CASE h[sf].type = "testSeekable" -> tsWrite(h, sf, p)
      [] h[sf].type = "seekbuffer" -> sbWrite(h, sf, p)
      [] h[sf].type = "file" -> sfWrite(h, h[sf].sf, p)

RECURSIVE sfSeek(_, _, _, _)
\* f.sf.Seek(offset, whence)
sfSeek(h, sf, offset, whence) ==
    CASE h[sf].type = "testSeekable" -> tsSeek(h, sf, offset, whence)
      [] h[sf].type = "seekbuffer" -> sbSeek(h, sf, offset, whence)
      [] h[sf].type = "file" -> sfSeek(h, h[sf].sf, offset, whence)

RECURSIVE truncateWritten(_, _, _, _, _)
RECURSIVE truncateLoop(_, _, _, _, _)
\* the loop of file.Truncate after its Write of the chunk at i
truncateWritten(w, sf, i, size, bufsize) ==
    IF w.panicked \/ w.err # NoErr THEN w
    ELSE truncateLoop(w.heap, sf, i + TruncateChunk, size, bufsize)

\* "for i := 0; int64(i) < int64(size); i += 512"
truncateLoop(h, sf, i, size, bufsize) ==
    IF i >= size THEN FReturn(h, 0, NoErr, FALSE)
    ELSE truncateWritten(
             sfWrite(h, sf, Zeros(IF size - i < TruncateChunk THEN size - i ELSE bufsize)),
             sf, i, size,
             IF size - i < TruncateChunk THEN size - i ELSE bufsize)

\* file.Truncate after its Seek to the start
truncateSought(r, sf, size) ==
    IF r.panicked \/ r.err # NoErr THEN r
    ELSE truncateLoop(r.heap, sf, 0, size, TruncateChunk)

\* file.Truncate(size) where f.sf is no filetruncater
fileTruncate(h, f, size) ==
    truncateSought(sfSeek(h, h[f].sf, 0, 0), h[f].sf, size)

RECURSIVE Root(_, _)
\* the Seekable at the bottom of the adapters
Root(h, f) == IF h[f].type = "file" THEN Root(h, h[f].sf) ELSE f

Seekables ==
    { <<TestSeekable(content)>> : content \in Contents }
        \cup { ExtendUnseekable(<<Unseekable(content)>>, 1, FALSE).heap : content \in Contents }

\* below, at and above the lengths of Contents, and one that takes twenty chunks
TruncateSizes == { 0, 1, 2, 10000 }

MaxAdapters == 1   \* the adapters put around one Seekable

AdapterInit ==
    /\ WrapperInit({{}})
    /\ heap \in Seekables
    /\ fcall = NoFcall

AdapterCommit(op, self, arg, r) ==
    /\ heap' = r.heap
    /\ fcall' = [op |-> op, self |-> self, arg |-> arg, ret |-> r.ret, err |-> r.err,
                 panicked |-> r.panicked]
    /\ UNCHANGED <<files, nav, caps, cwd, held, moved, last, peer, th, pure, ra>>

AdExtendSeekable ==
    \E sf \in DOMAIN heap :
        /\ heap[sf].type # "unseekable"
        /\ Cardinality(Refs(heap, "file")) < MaxAdapters
        /\ AdapterCommit("ExtendSeekable", sf, 0, ExtendSeekable(heap, sf))

FRead ==
    \E f \in Refs(heap, "file"), n \in 1..2 :
        /\ heap[Root(heap, f)].offset + n <= MaxOff
        /\ AdapterCommit("Read", f, n, sfRead(heap, heap[f].sf, n))

FWrite ==
    \E f \in Refs(heap, "file"), p \in WriteArgs :
        /\ heap[Root(heap, f)].offset + Len(p) <= MaxBuf
        /\ AdapterCommit("Write", f, Len(p), sfWrite(heap, heap[f].sf, p))

FSeek ==
    \E f \in Refs(heap, "file"), offset \in -1..1, whence \in 0..3 :
        /\ sfSeek(heap, heap[f].sf, offset, whence).ret \in -1..MaxOff
        /\ AdapterCommit("Seek", f, offset, sfSeek(heap, heap[f].sf, offset, whence))

FTruncate ==
    \E f \in Refs(heap, "file"), size \in TruncateSizes :
        /\ AdapterCommit("Truncate", f, size, fileTruncate(heap, f, size))

AdapterNext == AdExtendSeekable \/ FRead \/ FWrite \/ FSeek \/ FTruncate

AdapterSpec == AdapterInit /\ [][AdapterNext]_vars

----------------------------------------------------------------------------
(* flags.go: Flags.String and ParseFlags.  A string is the sequence of its  *)
(* characters; the values are those of package os on linux.                 *)

O_ACCESS == 3
O_RDONLY == 0
O_WRONLY == 1
O_RDWR == 2
O_APPEND == 1024
O_CREATE == 64
O_EXCL == 128
O_SYNC == 1052672
O_TRUNC == 512

RECURSIVE BitAnd(_, _)
\* a & b
BitAnd(a, b) ==
    IF a = 0 \/ b = 0 THEN 0
    ELSE 2 * BitAnd(a \div 2, b \div 2) + (IF a % 2 = 1 /\ b % 2 = 1 THEN 1 ELSE 0)

RECURSIVE BitOr(_, _)
\* a | b
BitOr(a, b) ==
    IF a = 0 THEN b
    ELSE IF b = 0 THEN a
    ELSE 2 * BitOr(a \div 2, b \div 2) + (IF a % 2 = 1 \/ b % 2 = 1 THEN 1 ELSE 0)

Bar == "|"

FlagText ==
    [O_RDONLY |-> <<"O", "_", "R", "D", "O", "N", "L", "Y">>,
     O_WRONLY |-> <<"O", "_", "W", "R", "O", "N", "L", "Y">>,
     O_RDWR |-> <<"O", "_", "R", "D", "W", "R">>,
     O_APPEND |-> <<"O", "_", "A", "P", "P", "E", "N", "D">>,
     O_CREATE |-> <<"O", "_", "C", "R", "E", "A", "T", "E">>,
     O_EXCL |-> <<"O", "_", "E", "X", "C", "L">>,
     O_SYNC |-> <<"O", "_", "S", "Y", "N", "C">>,
     O_TRUNC |-> <<"O", "_", "T", "R", "U", "N", "C">>]

FlagValue ==
    [O_RDONLY |-> O_RDONLY, O_WRONLY |-> O_WRONLY, O_RDWR |-> O_RDWR,
     O_APPEND |-> O_APPEND, O_CREATE |-> O_CREATE, O_EXCL |-> O_EXCL,
     O_SYNC |-> O_SYNC, O_TRUNC |-> O_TRUNC]

\* "names" of Flags.String, in the order of its loop
FlagNames == <<"O_APPEND", "O_CREATE", "O_EXCL", "O_SYNC", "O_TRUNC">>

AccessNames == {"O_RDONLY", "O_WRONLY", "O_RDWR"}

RECURSIVE JoinBar(_)
\* strings.Join(out, "|")
JoinBar(out) ==
    IF out = <<>> THEN <<>>
    ELSE IF Len(out) = 1 THEN out[1]
    ELSE out[1] \o <<Bar>> \o JoinBar(Tail(out))

\* Flags.String
FlagsString(f) ==
    LET acc == BitAnd(f, O_ACCESS)
        mode == CASE acc = O_RDONLY -> <<FlagText["O_RDONLY"]>>
                  [] acc = O_RDWR -> <<FlagText["O_RDWR"]>>
                  [] acc = O_WRONLY -> <<FlagText["O_WRONLY"]>>
                  [] OTHER -> <<>>
        set == SelectSeq(FlagNames, LAMBDA n : BitAnd(FlagValue[n], f) # 0)
    IN JoinBar(mode \o [i \in 1..Len(set) |-> FlagText[set[i]]])

\* the name that is spelled v, or "" when none is
NameOf(v) ==
    IF \E n \in DOMAIN FlagText : FlagText[n] = v
    THEN CHOOSE n \in DOMAIN FlagText : FlagText[n] = v
    ELSE ""

RECURSIVE ParseFlagsLoop(_, _, _)
\* the loop of ParseFlags over strings.Split(input, "|"), then its last switch
ParseFlagsLoop(parts, acc, out) ==
    IF parts = <<>>
    THEN [val |-> CASE acc = "O_RDWR" -> BitOr(out, O_RDWR)
                    [] acc = "O_WRONLY" -> BitOr(out, O_WRONLY)
                    [] OTHER -> out,
          err |-> "nil"]
    ELSE LET v == NameOf(Head(parts))
         IN IF v \in AccessNames
            THEN IF acc # "" THEN [val |-> 0, err |-> "multiple access modes"]
                 ELSE ParseFlagsLoop(Tail(parts), v, out)
            ELSE IF v = "" THEN [val |-> 0, err |-> "unrecognized flag"]
            ELSE ParseFlagsLoop(Tail(parts), acc, BitOr(out, FlagValue[v]))

\* a ParseFlags that takes every access mode for O_RDONLY
ParseFlagsNoAccess(input) ==
    [val |-> BitAnd(ParseFlagsLoop(SplitOn(input, Bar), "", 0).val, O_SYNC + 2047 - O_ACCESS),
     err |-> ParseFlagsLoop(SplitOn(input, Bar), "", 0).err]

\* ParseFlags
ParseFlags(input) == ParseFlagsLoop(SplitOn(input, Bar), "", 0)

\* inputs of ParseFlags that no String returns
FlagTexts ==
    { <<>>, FlagText["O_APPEND"], <<"x">>,
      FlagText["O_RDWR"] \o <<Bar>> \o FlagText["O_RDONLY"],
      FlagText["O_TRUNC"] \o <<Bar>> \o FlagText["O_TRUNC"] \o <<Bar>> \o FlagText["O_WRONLY"],
      FlagText["O_SYNC"] \o <<Bar>> }

\* the flags of a set of names, or'ed together
FlagsOf(set) ==
    LET in == SelectSeq(FlagNames, LAMBDA n : n \in set)
        Or[i \in 0..Len(in)] == IF i = 0 THEN 0 ELSE BitOr(Or[i - 1], FlagValue[in[i]])
    IN Or[Len(in)]

PureCommit(fn, mode, set, f, s, r) ==
    /\ pure' = [fn |-> fn, mode |-> mode, set |-> set, f |-> f, s |-> s,
                val |-> r.val, err |-> r.err, panicked |-> FALSE]
    /\ UNCHANGED <<files, nav, caps, cwd, held, moved, last, peer, th, heap, fcall, ra>>

\* f.String() for an access mode, 3 included, or'ed with some of the flags
StringCall ==
    \E mode \in 0..3, set \in SUBSET {FlagNames[i] : i \in DOMAIN FlagNames} :
        /\ PureCommit("String", mode, set, BitOr(mode, FlagsOf(set)),
                      FlagsString(BitOr(mode, FlagsOf(set))), [val |-> 0, err |-> "nil"])

\* ParseFlags(f.String())
ParseBack ==
    /\ pure.fn = "String"
    /\ PureCommit("ParseFlags", pure.mode, pure.set, pure.f, pure.s, ParseFlags(pure.s))

\* ParseFlags of some other text
ParseCall ==
    \E s \in FlagTexts :
        /\ PureCommit("ParseFlags", 3, {}, 3, s, ParseFlags(s))

----------------------------------------------------------------------------
(* filemode.go: ParseFileMode.  An os.FileMode is kept as its type bit, by  *)
(* name, and its permission bits.                                           *)

OS_READ == 4
OS_WRITE == 2
OS_EX == 1
OS_USER_SHIFT == 6
OS_GROUP_SHIFT == 3
OS_OTH_SHIFT == 0

OS_USER_R == OS_READ * 2^OS_USER_SHIFT
OS_USER_W == OS_WRITE * 2^OS_USER_SHIFT
OS_USER_X == OS_EX * 2^OS_USER_SHIFT
OS_GROUP_R == OS_READ * 2^OS_GROUP_SHIFT
OS_GROUP_W == OS_WRITE * 2^OS_GROUP_SHIFT
OS_GROUP_X == OS_EX * 2^OS_GROUP_SHIFT
OS_OTH_R == OS_READ * 2^OS_OTH_SHIFT
OS_OTH_W == OS_WRITE * 2^OS_OTH_SHIFT
OS_OTH_X == OS_EX * 2^OS_OTH_SHIFT

\* "if len(input) < 10"
MinModeLen == 10

\* the switch on input[:1]
ModeTypes ==
    [x \in {"-", "d", "a", "l", "T", "L", "D", "p", "S", "u", "g", "c", "t"} |->
        CASE x = "-" -> "regular"
          [] x = "d" -> "ModeDir"
          [] x = "a" -> "ModeAppend"
          [] x = "l" -> "ModeExclusive"
          [] x = "T" -> "ModeTemporary"
          [] x = "L" -> "ModeSymlink"
          [] x = "D" -> "ModeDevice"
          [] x = "p" -> "ModeNamedPipe"
          [] x = "S" -> "ModeSocket"
          [] x = "u" -> "ModeSetuid"
          [] x = "g" -> "ModeSetgid"
          [] x = "c" -> "ModeCharDevice"
          [] x = "t" -> "ModeSticky"]

permissions ==
    << <<"r", OS_USER_R>>, <<"w", OS_USER_W>>, <<"x", OS_USER_X>>,
       <<"r", OS_GROUP_R>>, <<"w", OS_GROUP_W>>, <<"x", OS_GROUP_X>>,
       <<"r", OS_OTH_R>>, <<"w", OS_OTH_W>>, <<"x", OS_OTH_X>> >>

\* strings.ToLower on the letters of the inputs
ToLower(c) ==
    CASE c = "R" -> "r" [] c = "W" -> "w" [] c = "X" -> "x" [] c = "A" -> "a"
      [] OTHER -> c

ModeRes(type, perm, err, panicked) ==
    [val |-> [type |-> type, perm |-> perm], err |-> err, panicked |-> panicked]

RECURSIVE ParseFileModeLoop(_, _, _, _)
\* "for i, c := range strings.ToLower(input[1:])" from index i on (i counts
\* from 0); permissions[i] of an i past the table panics
ParseFileModeLoop(rest, i, type, perm) ==
    IF i >= Len(rest) THEN ModeRes(type, perm, "nil", FALSE)
    ELSE IF ToLower(rest[i + 1]) = "-" THEN ParseFileModeLoop(rest, i + 1, type, perm)
    ELSE IF i + 1 > Len(permissions) THEN ModeRes("", 0, "nil", TRUE)
    ELSE IF ToLower(rest[i + 1]) # permissions[i + 1][1]
    THEN ModeRes("", 0, "unrecognized character", FALSE)
    ELSE ParseFileModeLoop(rest, i + 1, type, BitOr(perm, permissions[i + 1][2]))

ParseFileMode(input) ==
    IF Len(input) < MinModeLen THEN ModeRes("", 0, "too short", FALSE)
    ELSE IF input[1] \notin DOMAIN ModeTypes
    THEN ModeRes("", 0, "unrecognized character", FALSE)
    ELSE ParseFileModeLoop(Tail(input), 0, ModeTypes[input[1]], 0)

\* the longest run of characters tried behind the tenth
MaxTail == 2

Tails == UNION { [1..n -> {"-", "r"}] : n \in 0..MaxTail }

\* mode strings, well formed and not, whole and cut short
ModeTexts ==
    LET whole == { <<t>> \o a \o b \o c \o e :
                      t \in {"-", "d", "X"},
                      a \in {<<"r", "w", "x">>, <<"R", "-", "X">>, <<"r", "a", "x">>},
                      b \in {<<"r", "w", "x">>, <<"-", "-", "-">>},
                      c \in {<<"r", "w", "x">>, <<"r", "-", "-">>, <<"r", "w", "w">>},
                      e \in Tails }
    IN whole \cup { SubSeq(w, 1, n) : w \in whole, n \in {0, 4, 9} }

ModeCommit(s, r) ==
    /\ pure' = [fn |-> "ParseFileMode", mode |-> 0, set |-> {}, f |-> 0, s |-> s,
                val |-> r.val, err |-> r.err, panicked |-> r.panicked]
    /\ UNCHANGED <<files, nav, caps, cwd, held, moved, last, peer, th, heap, fcall, ra>>

\* ParseFileMode(s)
ModeCall ==
    \E s \in ModeTexts :
        /\ ModeCommit(s, ParseFileMode(s))

PureInit ==
    /\ WrapperInit({{}})
    /\ heap = <<>>
    /\ fcall = NoFcall

PureNext == StringCall \/ ParseBack \/ ParseCall \/ ModeCall

PureSpec == PureInit /\ [][PureNext]_vars

----------------------------------------------------------------------------
(* Generic RemoveAll step by step: one frame per call of fs.removeAll, one  *)
(* step per Readdirnames call, per name of its answer and per return.  A    *)
(* directory handle answers a call with some of the names it has left and   *)
(* nil, with no name and nil, with io.EOF once it has no name left, or with *)
(* an error.                                                                *)

Frame(path) ==
    [path |-> path, pc |-> "enter", h |-> NoHandle, batch |-> <<>>, rderr |-> NoErr,
     ret |-> NoErr]

Top == ra.stack[Len(ra.stack)]

\* "if err == io.EOF { break }; if err != nil { return err }": no further round
RoundOverNever(rderr) == FALSE

RoundOver(rderr) == rderr # NoErr

\* the frame on top returns err to the frame below it, or to the caller
Returned(err) ==
    IF Len(ra.stack) = 1
    THEN [ra EXCEPT !.stack = <<>>, !.done = TRUE, !.err = err]
    ELSE [ra EXCEPT !.stack = [SubSeq(@, 1, Len(@) - 1)
                                   EXCEPT ![Len(ra.stack) - 1].pc = "back",
                                          ![Len(ra.stack) - 1].ret = err]]

Moved(pc) == [ra EXCEPT !.stack[Len(ra.stack)].pc = pc]

LoopCommit(fm, next) ==
    /\ files' = fm
    /\ ra' = next
    /\ UNCHANGED <<nav, caps, cwd, held, moved, last, peer, th, heap, fcall, pure>>

\* fs.RemoveAll(name) of a wrapper at "/" over a backend without RemoveAll
RaCall ==
    \E name \in RemoveAllArgs :
        /\ ra.stack = <<>>
        /\ LoopCommit(files, [NoRemoveAll EXCEPT !.stack = <<Frame(Resolve(RootDir, {}, name))>>])

\* the backend's Remove(path) and the return of its error
RaRemoved(path) ==
    IF path \in DOMAIN files
    THEN LoopCommit(Drop(files, path), Returned(NoErr))
    ELSE LoopCommit(files, Returned(PathError("remove", path, "ErrNotExist")))

\* removeAll up to its loop: fs.Open(path), which may fail, Stat and Close;
\* then fs.Remove of a file, or the second fs.Open of a directory
RaEnter ==
    \E fail \in BOOLEAN :
        /\ ra.stack # <<>>
        /\ Top.pc = "enter"
        /\ IF fail THEN LoopCommit(files, Returned(Injected))
           ELSE IF Top.path \notin DOMAIN files
           THEN LoopCommit(files, Returned(PathError("open", Top.path, "ErrNotExist")))
           ELSE IF ~files[Top.path].isDir THEN RaRemoved(Top.path)
           ELSE LoopCommit(files,
                  [ra EXCEPT !.stack[Len(ra.stack)].pc = "read",
                             !.stack[Len(ra.stack)].h =
                                 [id |-> Len(ra.stack), key |-> Top.path, pos |-> 0,
                                  names |-> ChildNames(files, Top.path)]])

\* f.Readdirnames(512) answers with k further names, or none, and nil
RaReadMore ==
    \E k \in 0..BackendBatch :
        /\ ra.stack # <<>>
        /\ Top.pc = "read"
        /\ Top.h.pos + k <= Len(Top.h.names)
        /\ LoopCommit(files,
              [ra EXCEPT !.stack[Len(ra.stack)].pc = "names",
                         !.stack[Len(ra.stack)].batch =
                             SubSeq(Top.h.names, Top.h.pos + 1, Top.h.pos + k),
                         !.stack[Len(ra.stack)].rderr = NoErr,
                         !.stack[Len(ra.stack)].h.pos = @ + k,
                         !.stalled = @ \/ k = 0])

\* f.Readdirnames(512) answers with io.EOF at the end of the names, or with
\* another error anywhere
RaReadEnd ==
    \E err \in {EOF, Injected} :
        /\ ra.stack # <<>>
        /\ Top.pc = "read"
        /\ err = EOF => Top.h.pos = Len(Top.h.names)
        /\ LoopCommit(files,
              [ra EXCEPT !.stack[Len(ra.stack)].pc = "names",
                         !.stack[Len(ra.stack)].batch = <<>>,
                         !.stack[Len(ra.stack)].rderr = err])

\* the next name of the answer: fs.removeAll(filepath.Join(path, name))
RaChild ==
    /\ ra.stack # <<>>
    /\ Top.pc = "names"
    /\ Top.batch # <<>>
    /\ LoopCommit(files,
          IF Head(Top.batch) = Dot \/ Head(Top.batch) = DotDot
          THEN [ra EXCEPT !.stack[Len(ra.stack)].batch = Tail(@)]
          ELSE [ra EXCEPT !.stack = Append([@ EXCEPT ![Len(ra.stack)].pc = "wait"],
                                           Frame(Join(Top.path, Head(Top.batch))))])

\* back from the removeAll of a name
RaBack ==
    /\ ra.stack # <<>>
    /\ Top.pc = "back"
    /\ LoopCommit(files,
          IF Top.ret # NoErr THEN Returned(Top.ret)
          ELSE [ra EXCEPT !.stack[Len(ra.stack)].pc = "names",
                          !.stack[Len(ra.stack)].batch = Tail(@)])

\* the names of the answer are done
RaRoundEnd ==
    /\ ra.stack # <<>>
    /\ Top.pc = "names"
    /\ Top.batch = <<>>
    /\ LoopCommit(files,
          IF ~RoundOver(Top.rderr) THEN Moved("read")
          ELSE IF Top.rderr = EOF THEN Moved("finish")
          ELSE Returned(Top.rderr))

\* after the loop: f.Close(), fs.filer.Remove(path)
RaFinish ==
    /\ ra.stack # <<>>
    /\ Top.pc = "finish"
    /\ RaRemoved(Top.path)

LoopInit == InitWith({{}})

RaStep == RaEnter \/ RaReadMore \/ RaReadEnd \/ RaChild \/ RaBack \/ RaRoundEnd \/ RaFinish

LoopNext == RaCall \/ RaStep

LoopSpec == LoopInit /\ [][LoopNext]_vars

\* the call runs on, and each handle's Readdirnames comes to io.EOF or to
\* another error in the end
LoopFairSpec == LoopSpec /\ WF_vars(RaStep) /\ SF_vars(RaReadEnd)

----------------------------------------------------------------------------
(* The claims of the specification, C1 to C10 *)

\* a path argument that begins with '/' or '\'
BeginsWithSeparator(p) == p # <<>> /\ (p[1] = Sep \/ p[1] = BackSlash)

\* the backend path a caller at working directory c names with p under the
\* standard rule: an absolute p names itself, a relative p is joined onto c
Named(c, p) == IF BeginsWithSeparator(p) THEN p ELSE Clean(Join(c, p))

\* the key of the backend entry the caller names with p
NamedKey(p) == Clean(IF "dirnavigator" \in caps THEN p ELSE Named(cwd, p))

\* k is the entry d or lies below it
Under(d, k) ==
    \/ k = d
    \/ /\ Len(k) > Len(d) + 1
       /\ SubSeq(k, 1, Len(d)) = d
       /\ k[Len(d) + 1] = Sep

\* in the backend map fm the directory d holds k: k is d, or an entry of a
\* directory that d holds
RECURSIVE Holds(_, _, _)
Holds(fm, d, k) ==
    \/ k = d
    \/ /\ Under(d, k)
       /\ Dir(k) \in DOMAIN fm
       /\ fm[Dir(k)].isDir
       /\ Holds(fm, d, Dir(k))

MinimalOps == {"OpenFile", "Mkdir", "Remove", "Stat", "Chmod", "Chtimes", "Chown"}

OptionalOps == {"Open", "Create", "MkdirAll", "RemoveAll", "Truncate"}

\* the capability that makes an optional operation native
NativeOf ==
    [op \in OptionalOps \cup {"Chdir", "Getwd", "Separator", "ListSeparator", "TempDir"} |->
        CASE op = "Open" -> "opener"
          [] op = "Create" -> "creator"
          [] op = "MkdirAll" -> "mkaller"
          [] op = "RemoveAll" -> "remover"
          [] op = "Truncate" -> "truncater"
          [] op \in {"Chdir", "Getwd"} -> "dirnavigator"
          [] op = "Separator" -> "separator"
          [] op = "ListSeparator" -> "listseparator"
          [] op = "TempDir" -> "temper"]

Primitives == MinimalOps \cup {"Rename"}

\* C1: without native Chdir/Getwd, a relative path argument of OpenFile, Mkdir,
\* Remove, Stat, Chmod, Chtimes or Chown reaches the backend, in the one call
\* the operation makes, as Clean(Join(cwd, path)) for the working directory at
\* the time of the call; each of Rename's two paths is resolved on its own, and
\* an absolute old path beside a relative new path is left as it is.
C1_RelativePathsResolved ==
    "dirnavigator" \notin caps =>
        /\ (last.op \in MinimalOps /\ ~BeginsWithSeparator(last.name)) =>
              /\ Len(last.calls) = 1
              /\ last.calls[1].m = last.op
              /\ last.calls[1].p = Clean(Join(last.cwd0, last.name))
        /\ last.op = "Rename" =>
              /\ Len(last.calls) = 1
              /\ last.calls[1].m = "Rename"
              /\ last.calls[1].p = (IF BeginsWithSeparator(last.name) THEN last.name
                                    ELSE Clean(Join(last.cwd0, last.name)))
              /\ last.calls[1].p2 = (IF BeginsWithSeparator(last.name2) THEN last.name2
                                     ELSE Clean(Join(last.cwd0, last.name2)))

\* C1's case: at /a, Rename of the absolute /a/f to the relative f
C1_Witness ==
    /\ caps = {}
    /\ last.op = "Rename"
    /\ last.cwd0 = <<"/", "a">>
    /\ last.name = <<"/", "a", "/", "f">>
    /\ last.name2 = <<"f">>
    /\ last.calls[1].p = <<"/", "a", "/", "f">>
    /\ last.calls[1].p2 = <<"/", "a", "/", "f">>

\* C2: without native Chdir/Getwd the tracked working directory is, in every
\* reachable state, a cleaned path that begins with the root separator, also
\* after a successful Chdir with a relative argument.
C2_CwdCleanAbsolute ==
    "dirnavigator" \notin caps =>
        /\ cwd # <<>>
        /\ cwd[1] = Sep
        /\ Clean(cwd) = cwd

\* C3: without native Truncate, after Truncate(name, n) returned nil for an
\* existing file, Stat(name) reports the size n.
C3_TruncateSetsSize ==
    ("truncater" \notin caps /\ last.op = "Truncate" /\ last.err = NoErr) =>
        LET s == fsStat(Ctx0(0), cwd, caps, last.name)
        IN /\ s.err = NoErr
           /\ s.val.size = last.size

\* the place in the call log of the successful Remove of entry k, 0 if none
RemovedAt(calls, k) ==
    LET at == {i \in 1..Len(calls) :
                  calls[i].m = "Remove" /\ Clean(calls[i].p) = k /\ calls[i].err = NoErr}
    IN IF at = {} THEN 0 ELSE CHOOSE i \in at : \A j \in at : i <= j

\* C4: generic RemoveAll on a directory returns nil, leaves neither the
\* directory nor any entry below it in the backend, and removes every entry
\* below a directory before that directory.
C4_RemoveAllRemovesTree ==
    [][(last'.op = "RemoveAll" /\ "remover" \notin caps) =>
          LET d == NamedKey(last'.name)
          IN (d \in DOMAIN files /\ files[d].isDir) =>
                /\ last'.err = NoErr
                /\ \A k \in DOMAIN files : Holds(files, d, k) => k \notin DOMAIN files'
                /\ \A k, j \in DOMAIN files :
                      (Holds(files, d, k) /\ Holds(files, k, j) /\ j # k) =>
                          /\ RemovedAt(last'.calls, j) > 0
                          /\ RemovedAt(last'.calls, j) < RemovedAt(last'.calls, k)]_vars

\* C5: generic RemoveAll on an existing entry that is not a directory makes
\* exactly one backend Remove call, on the resolved path, returns that call's
\* result, and leaves the backend as a direct Remove of the path leaves it.
C5_RemoveAllOnFileIsRemove ==
    [][(last'.op = "RemoveAll" /\ "remover" \notin caps) =>
          LET d == NamedKey(last'.name)
              rm == SelectSeq(last'.calls, LAMBDA c : c.m = "Remove")
              direct == fsRemove(Ctx0(0), cwd, caps, last'.name)
          IN (d \in DOMAIN files /\ ~files[d].isDir) =>
                /\ Len(rm) = 1
                /\ Clean(rm[1].p) = d
                /\ last'.err = rm[1].err
                /\ files' = direct.ctx.files]_vars

\* what the backend's native method answers in the current state
NativeValue(op) ==
    CASE op = "Getwd" -> navGetwd(Ctx0(0)).val
      [] op = "Separator" -> nativeSeparator(Ctx0(0)).val
      [] op = "ListSeparator" -> nativeListSeparator(Ctx0(0)).val
      [] op = "TempDir" -> nativeTempDir(Ctx0(0)).val
      [] OTHER -> NoVal

\* C6: an optional operation the backend implements natively makes exactly one
\* backend call, the native method, no call of a primitive or on a handle, and
\* returns the native method's error and value as they are.
C6_NativeOnce ==
    (last.op \in DOMAIN NativeOf /\ NativeOf[last.op] \in caps) =>
        /\ Len(last.calls) = 1
        /\ last.calls[1].m = last.op
        /\ last.calls[1].m \notin Primitives
        /\ last.calls[1].p = last.name
        /\ last.err = last.calls[1].err
        /\ last.val = NativeValue(last.op)
        /\ last.op \in {"Open", "Create"} => held.live = (last.calls[1].err = NoErr)

\* C6's case: RemoveAll on a backend with a native RemoveAll
C6_Witness ==
    /\ "remover" \in caps
    /\ last.op = "RemoveAll"
    /\ last.name = <<"b">>
    /\ last.calls = <<Call("RemoveAll", <<"b">>, <<>>, NoFlag, 0, 0, last.err)>>

PathTaking(calls) ==
    SelectSeq(calls, LAMBDA c : c.m \in Primitives \cup OptionalOps \cup {"Chdir"})

\* C8: with a backend that implements Chdir and Getwd, every path argument
\* reaches the backend unchanged in every operation, native or generic (a
\* relative argument is never made absolute), Chdir and Getwd are the backend's,
\* and the wrapper's own working directory is never written.
C8_NavigatorPathsUnchanged ==
    "dirnavigator" \in caps =>
        /\ cwd = RootDir
        /\ last.op \in {"Chdir", "Getwd"} =>
              (Len(last.calls) = 1 /\ last.calls[1].m = last.op)
        /\ (last.op \in (Primitives \cup OptionalOps \cup {"Chdir"})) =>
              /\ PathTaking(last.calls) # <<>>
              /\ ~BeginsWithSeparator(last.name) =>
                    \A i \in 1..Len(PathTaking(last.calls)) :
                        ~BeginsWithSeparator(PathTaking(last.calls)[i].p)
              /\ last.op \notin {"MkdirAll"} => PathTaking(last.calls)[1].p = last.name
              /\ last.op = "Rename" => PathTaking(last.calls)[1].p2 = last.name2

\* what Getwd returns when called in the current state
GetwdNow == fsGetwd(Ctx0(0), cwd, caps)

\* C9: without native Chdir/Getwd, Getwd never fails, returns the root
\* separator until the first successful Chdir, returns Clean(d) after a
\* successful Chdir(d) with an absolute d, and changes its answer only over a
\* successful Chdir.
C9_GetwdFrame ==
    /\ []("dirnavigator" \notin caps =>
            /\ GetwdNow.err = NoErr
            /\ ~moved => GetwdNow.val.path = RootDir
            /\ (last.op = "Chdir" /\ last.err = NoErr /\ BeginsWithSeparator(last.name)) =>
                  GetwdNow.val.path = Clean(last.name)
            /\ last.op = "Getwd" => (last.err = NoErr /\ last.val = GetwdNow.val))
    /\ [][("dirnavigator" \notin caps /\ GetwdNow'.val # GetwdNow.val) =>
             (last'.op = "Chdir" /\ last'.err = NoErr)]_vars

\* C9's case: Getwd answers /a after Chdir("/a") succeeded
C9_Witness ==
    /\ "dirnavigator" \notin caps
    /\ moved
    /\ last.op = "Getwd"
    /\ last.err = NoErr
    /\ last.val.path = <<"/", "a">>

\* C10: generic Chdir on a path that does not exist returns the backend's
\* not-found error, on an existing entry that is not a directory it returns the
\* "not a directory" path error that carries the path as passed, and in both
\* cases the working directory stays as it was.
C10_ChdirErrors ==
    [][(last'.op = "Chdir" /\ "dirnavigator" \notin caps) =>
          LET k == NamedKey(last'.name)
          IN /\ k \notin DOMAIN files =>
                   (last'.err.kind = "ErrNotExist" /\ cwd' = cwd)
             /\ (k \in DOMAIN files /\ ~files[k].isDir) =>
                   /\ last'.err = PathError("chdir", last'.name, "not a directory")
                   /\ cwd' = cwd]_vars

----------------------------------------------------------------------------
(* The claims of the specification, C11 to C20 *)

\* the elements of a sequence
Range(sq) == {sq[i] : i \in 1..Len(sq)}

\* C11: generic MkdirAll(p), when no Mkdir fails on a free path, leaves the
\* entry p names and every ancestor of it below the root existing as
\* directories, makes its Mkdir calls parent before child, adds no other entry,
\* and makes no Mkdir call for the root.
C11_MkdirAllMakesPath ==
    [][(last'.op = "MkdirAll" /\ "mkaller" \notin caps /\ last'.failAt = 0) =>
          LET k == NamedKey(last'.name)
              mk == MkdirCalls(last'.calls)
          IN /\ \A a \in Range(Ancestry(k)) : a \in DOMAIN files' /\ files'[a].isDir
             /\ \A i \in 1..(Len(mk) - 1) : Clean(mk[i].p) = Dir(Clean(mk[i + 1].p))
             /\ (DOMAIN files') \ (DOMAIN files) \subseteq Range(Ancestry(k))
             /\ k = RootDir => mk = <<>>]_vars

\* C12: generic MkdirAll called a second time with the same path, right after a
\* first call, returns nil as the first call did and leaves the backend's
\* entries as the first call left them.
C12_MkdirAllTwice ==
    (last.op = "MkdirAll" /\ "mkaller" \notin caps /\ last.failAt = 0) =>
        LET again == fsMkdirAll(Ctx0(0), cwd, caps, last.name)
        IN /\ last.err = NoErr
           /\ again.err = NoErr
           /\ again.ctx.files = files

\* C12's case: MkdirAll("/a/b") has just made /a and /a/b
C12_Witness ==
    /\ last.op = "MkdirAll"
    /\ last.failAt = 0
    /\ last.name = <<"/", "a", "/", "b">>
    /\ Len(last.calls) = 2
    /\ \A i \in 1..2 : last.calls[i].m = "Mkdir" /\ last.calls[i].err = NoErr
    /\ files[<<"/", "a", "/", "b">>].isDir

\* a Mkdir call that failed for a reason other than the directory being there
\* already: another error, or the entry exists and is not a directory
Structural(call) ==
    /\ call.err # NoErr
    /\ \/ call.err.kind # "ErrExist"
       \/ ~files[Clean(call.p)].isDir

\* C13: generic MkdirAll returns an error when a Mkdir call failed for a
\* structural reason (permission denied, a component that is a regular file),
\* and returns nil when every Mkdir failure was already-exists.
C13_MkdirAllReportsFailure ==
    (last.op = "MkdirAll" /\ "mkaller" \notin caps) =>
        LET mk == MkdirCalls(last.calls)
            failed == \E i \in 1..Len(mk) : Structural(mk[i])
        IN /\ failed => last.err # NoErr
           /\ ~failed => last.err = NoErr

\* the operation last ran as the wrapper's generic algorithm
GenericRun(op, cap) == last.op = op /\ cap \notin caps

\* the least element of a non-empty set of call numbers
First(S) == CHOOSE i \in S : \A j \in S : i <= j

\* the calls of the last operation that failed, Close apart; io.EOF ends an
\* enumeration and is no failure
StepFailures ==
    {i \in 1..Len(last.calls) :
        /\ last.calls[i].m # "File.Close"
        /\ last.calls[i].err \notin {NoErr, EOF}}

CloseFailures ==
    {i \in 1..Len(last.calls) :
        last.calls[i].m = "File.Close" /\ last.calls[i].err # NoErr}

Opened ==
    {i \in 1..Len(last.calls) :
        last.calls[i].m \in {"Open", "OpenFile"} /\ last.calls[i].err = NoErr}

\* C15: every handle the wrapper opened inside generic RemoveAll, Chdir or
\* Truncate has had its Close called when the operation returns, whether it
\* returns nil or an error, at every level of the recursion.
C15_HandlesClosed ==
    (\/ GenericRun("RemoveAll", "remover")
     \/ GenericRun("Chdir", "dirnavigator")
     \/ GenericRun("Truncate", "truncater")) =>
        \A i \in Opened :
            \E j \in 1..Len(last.calls) :
                /\ j > i
                /\ last.calls[j].m = "File.Close"
                /\ last.calls[j].h = last.calls[i].h

\* C15's case: RemoveAll failed below the directory, with the handles of two
\* levels open
C15_Witness ==
    /\ GenericRun("RemoveAll", "remover")
    /\ last.err = Injected
    /\ Cardinality(Opened) >= 3
    /\ \E i \in StepFailures : i > First(Opened) + 4

\* C16: when a Close fails inside generic RemoveAll, Chdir or Truncate, the
\* operation returns the error of the first Close that failed unless a step
\* before it failed, and then it returns that earlier error.
C16_CloseErrorSurfaced ==
    ((\/ GenericRun("RemoveAll", "remover")
      \/ GenericRun("Chdir", "dirnavigator")
      \/ GenericRun("Truncate", "truncater")) /\ CloseFailures # {}) =>
        LET earlier == {i \in StepFailures : i < First(CloseFailures)}
        IN IF earlier # {} THEN last.err = last.calls[First(earlier)].err
           ELSE last.err = last.calls[First(CloseFailures)].err

\* what Getwd of a wrapper whose fs.cwd is c returns over the backend (fm, nv)
GetwdAt(fm, nv, c) == fsGetwd(Ctx(fm, nv, 0, FALSE, FALSE), c, caps).val

\* what Stat of name through such a wrapper answers
StatAt(fm, nv, c, name) ==
    LET r == fsStat(Ctx(fm, nv, 0, FALSE, FALSE), c, caps, name)
    IN [err |-> r.err, val |-> r.val]

\* C17: of two wrappers over one backend, a call on one (a Chdir above all)
\* changes neither what Getwd returns on the other nor how the other resolves a
\* relative path, while the entries of the backend are the same seen through
\* either wrapper.
C17_SeparateWorkingDirectories ==
    [][/\ peer'.who = 2 =>
             /\ GetwdAt(files', nav', cwd') = GetwdAt(files, nav, cwd)
             /\ \A name \in {<<"b">>, <<"f">>} :
                   Resolve(cwd', caps, name) = Resolve(cwd, caps, name)
       /\ peer'.who = 1 =>
             /\ GetwdAt(files', nav', peer'.cwd) = GetwdAt(files, nav, peer.cwd)
             /\ \A name \in {<<"b">>, <<"f">>} :
                   Resolve(peer'.cwd, caps, name) = Resolve(peer.cwd, caps, name)
       /\ \A name \in {<<"/", "a">>, <<"/", "a", "/", "b">>, <<"/", "a", "/", "f">>} :
             StatAt(files', nav', cwd', name) = StatAt(files', nav', peer'.cwd, name)]_vars

\* C18: a method other than Chdir that a thread calls with an absolute path
\* makes the backend calls it would make on a wrapper nobody calls Chdir on,
\* whatever a concurrent Chdir on the same wrapper has written, or is writing,
\* to the working directory.
C18_AbsoluteCallsIgnoreRace ==
    (th.work.pc = "done" /\ BeginsWithSeparator(th.work.name)) =>
        th.work.calls = th.work.ref

\* C18's case: Stat("\a") returned after the thread found in fs.cwd a torn
\* value left by two Chdir calls of the other thread
C18_Witness ==
    /\ caps = {}
    /\ th.work.pc = "done"
    /\ th.work.op = "Stat"
    /\ th.work.name = <<"\\", "a">>
    /\ Cardinality(th.wrote) >= 2
    /\ th.work.seen \notin ({RootDir} \cup th.wrote)
    /\ th.work.calls # <<>>
    /\ th.work.calls[1].p = <<"\\", "a">>

\* the calls made on the handle under the seekbuffer at address s of heap h
UnderCalls(h, s) == h[h[s].uf].calls

\* C19: on a handle made by ExtendUnseekable, Read, Write and Seek make no
\* call on the underlying handle; Sync and Close each make exactly one Write
\* call on it, before any other call, carrying the whole buffer as it was
\* when they were called, and they panic exactly when that Write accepted
\* fewer bytes than the buffer holds.
C19_BufferedUntilFlushed ==
    [][/\ fcall'.op \in {"Read", "Write", "Seek"} =>
              UnderCalls(heap', fcall'.self) = <<>>
       /\ fcall'.op \in {"Sync", "Close"} =>
              LET new == UnderCalls(heap', fcall'.self)
              IN /\ Len(SelectSeq(new, LAMBDA c : c.m = "Write")) = 1
                 /\ new[1].m = "Write"
                 /\ new[1].p = heap[fcall'.self].data
                 /\ fcall'.panicked <=> new[1].n < Len(heap[fcall'.self].data)]_vars

\* C19's case: after a Seek and a Write made the buffer <<1, 7>>, and after a
\* flush whose Write came up short, a Close has handed the two bytes to the
\* underlying handle in one Write and closed it
C19_Witness ==
    /\ fcall.op = "Close"
    /\ ~fcall.panicked
    /\ fcall.err = NoErr
    /\ heap[fcall.self].data = <<1, 7>>
    /\ heap[heap[fcall.self].uf].short
    /\ UnderCalls(heap, fcall.self) =
           << [m |-> "Write", p |-> <<1, 7>>, n |-> 2],
              [m |-> "Sync", p |-> <<>>, n |-> 0],
              [m |-> "Close", p |-> <<>>, n |-> 0] >>

\* C20: ExtendSeekable of a value that already is a File returns that value.
C20_ExtendSeekableKeepsFile ==
    (fcall.op = "ExtendSeekable" /\ heap[fcall.self].type = "file") =>
        fcall.ret = fcall.self

----------------------------------------------------------------------------
(* The claims of the specification, C21 to C30 *)

\* C21: after Truncate(size) on a File over a Seekable without a Truncate of
\* its own has returned nil, the content under the adapter is exactly size
\* bytes long, whether size is above, at or below the length before.
C21_TruncateSetsLength ==
    (fcall.op = "Truncate" /\ fcall.err = NoErr /\ ~fcall.panicked) =>
        Len(heap[Root(heap, fcall.self)].data) = fcall.arg

\* C22: a successful Truncate on a File leaves the offset of the handle, as
\* Seek(0, SeekCurrent) reports it, where it was before the call.
C22_TruncateKeepsOffset ==
    [][(fcall'.op = "Truncate" /\ fcall'.err = NoErr /\ ~fcall'.panicked) =>
           heap'[Root(heap, fcall'.self)].offset = heap[Root(heap, fcall'.self)].offset]_vars

\* the text the claim expects for an access mode and a set of flags: the
\* mode, then the flags of the set in the order O_APPEND, O_CREATE, O_EXCL,
\* O_SYNC, O_TRUNC, with '|' between them
FlagListing(mode, set) ==
    LET first == CASE mode = 0 -> "O_RDONLY" [] mode = 1 -> "O_WRONLY" [] mode = 2 -> "O_RDWR"
        rest == SelectSeq(FlagNames, LAMBDA n : n \in set)
        Text[i \in 0..Len(rest)] ==
            IF i = 0 THEN FlagText[first] ELSE Text[i - 1] \o <<Bar>> \o FlagText[rest[i]]
    IN Text[Len(rest)]

\* C23: for one access mode or'ed with any of the five flags, String is the
\* mode followed by the set flags in the fixed order, joined by '|', and
\* ParseFlags of that text returns the same value and no error.
C23_FlagsRoundTrip ==
    (pure.fn \in {"String", "ParseFlags"} /\ pure.mode \in 0..2) =>
        /\ pure.s = FlagListing(pure.mode, pure.set)
        /\ pure.fn = "ParseFlags" => (pure.val = pure.f /\ pure.err = "nil")

\* C23's case: O_RDWR with all five flags has gone through String and back
\* through ParseFlags
C23_Witness ==
    /\ pure.fn = "ParseFlags"
    /\ pure.mode = 2
    /\ Cardinality(pure.set) = 5
    /\ pure.f = 2 + 1024 + 64 + 128 + 1052672 + 512
    /\ pure.val = pure.f
    /\ Len(SplitOn(pure.s, Bar)) = 6

\* C24: on a backend with a native Open, Create, MkdirAll, RemoveAll or
\* Truncate and without Chdir/Getwd, the native method is called with the
\* resolved path: a relative argument arrives as Clean(Join(cwd, path)) for
\* the working directory at the time of the call.
C24_NativeGetsResolvedPath ==
    ("dirnavigator" \notin caps /\ last.op \in OptionalOps /\ NativeOf[last.op] \in caps
        /\ ~BeginsWithSeparator(last.name)) =>
        /\ last.calls # <<>>
        /\ last.calls[1].m = last.op
        /\ last.calls[1].p = Clean(Join(last.cwd0, last.name))

\* C25: an absolute path argument reaches the backend normalized, with
\* redundant separators collapsed and "." and ".." resolved, in every
\* path-taking operation of the wrapper.
C25_AbsoluteNormalized ==
    (last.op \in (Primitives \cup OptionalOps \cup {"Chdir"})
        /\ BeginsWithSeparator(last.name)) =>
        \A i \in 1..Len(PathTaking(last.calls)) :
            PathTaking(last.calls)[i].p = Clean(PathTaking(last.calls)[i].p)

\* the top frame is in its enumeration loop and the step takes it out of it
LeavesLoop ==
    /\ ra.stack # <<>>
    /\ Top.pc \in {"read", "names", "back"}
    /\ \/ Len(ra'.stack) < Len(ra.stack)
       \/ /\ Len(ra'.stack) = Len(ra.stack)
          /\ ra'.stack[Len(ra.stack)].pc = "finish"

\* C26: a generic RemoveAll returns after finitely many steps when every
\* handle's Readdirnames comes to io.EOF or to another error in the end, and
\* a directory's enumeration loop is left only on such an answer or on a
\* failed removal of a child.
C26_RemoveAllReturns ==
    /\ (ra.stack # <<>>) ~> ra.done
    /\ [][LeavesLoop =>
              \/ Top.pc = "names" /\ Top.batch = <<>> /\ Top.rderr # NoErr
              \/ Top.pc = "back" /\ Top.ret # NoErr]_vars

\* a RemoveAll of "/a" that met an answer of no names and nil has returned
\* nil with the whole tree removed
C26_Witness ==
    /\ ra.done
    /\ ra.stalled
    /\ ra.err = NoErr
    /\ DOMAIN files = {}

\* a Rename of two relative paths has returned from a wrapper that resolves
RenameOfRelatives ==
    /\ th.work.pc = "done"
    /\ th.work.op = "Rename"
    /\ "dirnavigator" \notin caps
    /\ ~isVirtualAbs(th.work.name)
    /\ ~isVirtualAbs(th.work.name2)

\* the backend's Rename got oldpath joined onto v1 and newpath joined onto v2
RenamedAgainst(v1, v2) ==
    /\ th.work.calls[1].p = Clean(Join(v1, th.work.name))
    /\ th.work.calls[1].p2 = Clean(Join(v2, th.work.name2))

\* C27 as stated: a Rename of two relative paths hands the backend both paths
\* resolved against one and the same working-directory value, whatever a
\* Chdir of another thread does meanwhile.
C27_OneCwdPerRename ==
    RenameOfRelatives => \E v \in Readable : RenamedAgainst(v, v)

\* C27, amended: each of the two paths is resolved against a value that the
\* working directory can show the thread, and the two values are the same
\* when no other thread has stored a working directory into the wrapper.
C27_OneCwdWithoutChdir ==
    RenameOfRelatives =>
        /\ \E v1 \in Readable, v2 \in Readable : RenamedAgainst(v1, v2)
        /\ th.wrote = {} => RenamedAgainst(RootDir, RootDir)

\* a Rename of "f" to "g" has returned while the other thread is in Chdir and
\* has not stored yet
C27_Witness ==
    /\ RenameOfRelatives
    /\ th.wrote = {}
    /\ th.chdir.pc = "store"
    /\ th.work.calls[1].p = <<"/", "f">>
    /\ th.work.calls[1].p2 = <<"/", "g">>

\* the step is a call of op on a seekbuffer that returned
SeekbufferCall(ops) ==
    /\ fcall'.op \in ops
    /\ fcall'.self \in Refs(heap, "seekbuffer")
    /\ ~fcall'.panicked

\* C28: on a handle made by ExtendUnseekable a Write moves the offset on by
\* the number of bytes it wrote, so that a second Write puts its bytes behind
\* those of the first, and no Seek, Read or Write leaves the offset negative.
C28_WriteAdvancesOffset ==
    [][/\ SeekbufferCall({"Write"}) =>
              heap'[fcall'.self].offset = heap[fcall'.self].offset + fcall'.ret
       /\ SeekbufferCall({"Seek", "Read", "Write"}) =>
              heap'[fcall'.self].offset >= 0]_vars

\* the Close calls the last operation made on the handle it got from call i
ClosesOf(i) ==
    {j \in 1..Len(last.calls) :
        last.calls[j].m = "File.Close" /\ last.calls[j].h = last.calls[i].h}

\* C29: generic RemoveAll calls Close at most once on each handle it opened,
\* when it returns nil as well as when it returns an error.
C29_CloseAtMostOnce ==
    GenericRun("RemoveAll", "remover") =>
        \A i \in Opened : Cardinality(ClosesOf(i)) <= 1

\* the text is no mode string of ten characters: too short, too long, an
\* unknown type character, or a character that is neither "-" nor the
\* permission letter of its position
Malformed(s) ==
    \/ Len(s) # MinModeLen
    \/ s[1] \notin DOMAIN ModeTypes
    \/ \E i \in 1..Len(permissions) :
          ToLower(s[i + 1]) \notin {"-", permissions[i][1]}

\* C30: ParseFileMode returns a mode or an error for every input and never
\* panics on an index outside its table of nine permissions; a text that is
\* too short, too long, of an unknown type or with a permission letter out of
\* place gets an error.
C30_ParseFileModeNoPanic ==
    pure.fn = "ParseFileMode" =>
        /\ ~pure.panicked
        /\ Malformed(pure.s) => pure.err # "nil"

====
